---------------------------- MODULE Spec2Model ----------------------------
(***************************************************************************)
(* Model of the liftbridge controller FSM (server/fsm.go): Apply with the  *)
(* recovery barrier, the per-operation apply functions, Snapshot / Persist *)
(* and Restore.  The metadata store and the partition type live outside    *)
(* the modelled source files and are written from the design text.  The   *)
(* Raft library is the environment: it owns the log, the commit index and  *)
(* the order in which Apply, Snapshot and Restore are called.              *)
(*                                                                         *)
(* The second part models one commit log segment (commitlog/segment.go):   *)
(* writes, seal, split check, the waiters map and its channels, close,     *)
(* ReadAt and Replace, with the files the segment keeps on disk.  The      *)
(* index type is outside the modelled source files and is written from the *)
(* design text.  Of the commit log the source holds the interface only;    *)
(* its operations are not modelled.                                        *)
(***************************************************************************)
EXTENDS Integers, Sequences, FiniteSets, TLC

\* ------------------------------------------------------------------------
\* Bounds of the model
\* ------------------------------------------------------------------------
MaxIndex == 3
MaxMsgs == 1
\* Segment: bytes a log file may hold, channels made, clock ticks.
MaxLog == 3
MaxChans == 5
MaxClock == 2
\* The times a reader starts again at the log for one offset.
MaxRetries == 2

\* ------------------------------------------------------------------------
\* Inputs
\* ------------------------------------------------------------------------
Streams == {"s1"}
PartitionIDs == {0}
NodeIDs == {"a", "b"}
\* The replica ISR entries name: "a" is the leader a partition is created with.
Followers == {"b"}
Keys == Streams \X PartitionIDs
\* Partition lists a PauseStream entry may carry (id 1 is never created).
PauseLists == {<<>>, <<0, 1>>}

VARIABLES
    raftLog,            \* raft store: sequence of log entries, index 1..Len
    commitIndex,        \* raft Stats()["commit_index"]
    lastApplied,        \* index of the last entry raft handed to the FSM
    proc,               \* "running" or "aborted" (panic)
    shutdown,           \* s.isShutdown()
    LogRecovery,        \* s.config.LogRecovery
    recoveryStarted,    \* s.recoveryStarted
    latestRecoveredLog, \* index of s.latestRecoveredLog, 0 for nil
    logDiscard,         \* logger output replaced by ioutil.Discard
    metadata,           \* s.metadata: key -> partition
    disk,               \* per partition on-disk log: -1 absent, else #messages
    fsmSnapshot,        \* the fsmSnapshot handed to raft and being persisted
    sink,               \* the last snapshot written to a raft.SnapshotSink
    recoveryHighWatermark, \* history: the barrier the first Apply found,
                        \* -1 before the first Apply, 0 for none
    finishedCount,      \* history: calls of finishedRecovery in this process
    last,               \* history: what the last FSM callback did
    replay,             \* history: store at the restart that begins a replay
    views,              \* history: store contents at Snapshot() time
    seg,                \* segment objects of the process: id -> fields
    files,              \* the directory: <<kind, suffix>> -> file
    chans,              \* channels made so far: how often each was closed
    readers,            \* readers waiting for data: waiter -> position
    clock,              \* what timestamp() returns
    replacers,          \* Replace calls in progress: caller -> position
    logSeg,             \* the segment object the commit log lists
    fetcher,            \* a reader fetching the message at an offset
    segLast             \* history: the last segment call and its result

replaceVars == <<replacers, logSeg, fetcher>>

segVars == <<seg, files, chans, readers, clock, replaceVars, segLast>>

vars == <<raftLog, commitIndex, lastApplied, proc, shutdown, LogRecovery,
          recoveryStarted, latestRecoveredLog, logDiscard, metadata, disk,
          fsmSnapshot, sink, recoveryHighWatermark,
                   finishedCount, last, replay, views>>

\* ------------------------------------------------------------------------
\* proto.RaftLog entries
\* ------------------------------------------------------------------------
Entry(type, op, stream, partition, replica, partitions, resumeAll) ==
    [type |-> type, op |-> op, stream |-> stream, partition |-> partition,
     replica |-> replica, partitions |-> partitions, resumeAll |-> resumeAll]

CreateOps == {Entry("LogCommand", "CREATE_PARTITION", k[1], k[2], "", <<>>, FALSE) : k \in Keys}
ShrinkOps == {Entry("LogCommand", "SHRINK_ISR", k[1], k[2], r, <<>>, FALSE) : k \in Keys, r \in Followers}
ExpandOps == {Entry("LogCommand", "EXPAND_ISR", k[1], k[2], r, <<>>, FALSE) : k \in Keys, r \in Followers}
LeaderOps == {Entry("LogCommand", "CHANGE_LEADER", k[1], k[2], r, <<>>, FALSE) : k \in Keys, r \in NodeIDs}
DeleteOps == {Entry("LogCommand", "DELETE_STREAM", s, 0, "", <<>>, FALSE) : s \in Streams}
PauseOps == {Entry("LogCommand", "PAUSE_STREAM", s, 0, "", l, TRUE) : s \in Streams, l \in PauseLists}
UnknownOps == {Entry("LogCommand", "UNKNOWN", "", 0, "", <<>>, FALSE)}
NoopEntries == {Entry("LogNoop", "", "", 0, "", <<>>, FALSE)}

Entries == CreateOps \cup ShrinkOps \cup ExpandOps \cup LeaderOps \cup DeleteOps
           \cup PauseOps \cup UnknownOps \cup NoopEntries

\* The partition a CreatePartitionOp carries: replicas, leader and ISR are
\* chosen by the proposer; epoch fields are overwritten by apply.
NewProto(stream, id) ==
    [stream |-> stream, id |-> id, replicas |-> NodeIDs, isr |-> NodeIDs,
     leader |-> "a", epoch |-> 0, leaderEpoch |-> 0, paused |-> FALSE,
     resumeAll |-> FALSE]

Range(f) == {f[x] : x \in DOMAIN f}

\* The map with no keys.
EmptyMap == [k \in {} |-> {}]

\* ------------------------------------------------------------------------
\* Partition (design text 4.4)
\* ------------------------------------------------------------------------
GetEpoch(p) == p.proto.epoch

SetEpoch(p, epoch) == [p EXCEPT !.proto.epoch = epoch]

\* RemoveFromISR / AddToISR fail if the replica is unknown.
RemoveFromISR(p, replica) ==
    IF replica \notin p.proto.replicas
    THEN [p |-> p, err |-> "not a replica"]
    ELSE [p |-> [p EXCEPT !.proto.isr = @ \ {replica}], err |-> "nil"]

AddToISR(p, replica) ==
    IF replica \notin p.proto.replicas
    THEN [p |-> p, err |-> "not a replica"]
    ELSE [p |-> [p EXCEPT !.proto.isr = @ \cup {replica}], err |-> "nil"]

SetLeader(p, leader, epoch) ==
    [p |-> [p EXCEPT !.proto.leader = leader, !.proto.leaderEpoch = epoch],
     err |-> "nil"]

PartitionPause(p, resumeAll) ==
    [p EXCEPT !.proto.paused = TRUE, !.proto.resumeAll = resumeAll]

\* StartRecovered starts a partition that was added with recovered=true and
\* reports whether it did; it is a no-op for any other partition.
StartRecovered(p) == [p EXCEPT !.recovered = FALSE, !.started = TRUE]

\* Starting a partition opens its commit log, creating it when absent.
OpenLog(d, k) == IF d[k] = -1 THEN [d EXCEPT ![k] = 0] ELSE d

\* ------------------------------------------------------------------------
\* MetadataStore (design text 4.5)
\* ------------------------------------------------------------------------
HasPartition(md, stream, id) == <<stream, id>> \in DOMAIN md

GetPartition(md, stream, id) == md[<<stream, id>>]

StreamKeys(md, stream) == {k \in DOMAIN md : k[1] = stream}

HasStream(md, stream) == StreamKeys(md, stream) # {}

AddPartition(md, d, protoPartition, recovered) ==
    LET k == <<protoPartition.stream, protoPartition.id>> IN
    IF k \in DOMAIN md
    THEN [metadata |-> md, disk |-> d, err |-> "ErrPartitionExists"]
    ELSE [metadata |-> [x \in DOMAIN md \cup {k} |->
                          IF x = k
                          THEN [proto |-> protoPartition,
                                recovered |-> recovered,
                                started |-> ~recovered]
                          ELSE md[x]],
          disk |-> IF recovered THEN d ELSE OpenLog(d, k),
          err |-> "nil"]

\* CloseAndDeleteStream closes every partition of the stream and deletes its
\* commit log (CommitLog.Delete removes all data from the filesystem).
CloseAndDeleteStream(md, d, stream) ==
    [metadata |-> [x \in DOMAIN md \ StreamKeys(md, stream) |-> md[x]],
     disk |-> [k \in Keys |-> IF k \in StreamKeys(md, stream) THEN -1 ELSE d[k]],
     err |-> "nil"]

\* Stream.Pause: an empty list means every partition of the stream; a listed
\* id the stream does not have gives ErrPartitionNotFound.  Whether the
\* partitions listed before it are paused by then is left open: with inOrder
\* they are, without it none is.
StreamPause(md, stream, partitions, resumeAll, inOrder) ==
    LET ids == IF Len(partitions) = 0
               THEN {k[2] : k \in StreamKeys(md, stream)}
               ELSE Range(partitions)
        missing == {j \in 1..Len(partitions) : ~HasPartition(md, stream, partitions[j])}
        before == {partitions[j] : j \in {i \in 1..Len(partitions) :
                                             \A m \in missing : i < m}}
        paused == IF missing = {} THEN ids
                  ELSE IF inOrder THEN before ELSE {}
    IN [metadata |-> [k \in DOMAIN md |->
                        IF k[1] = stream /\ k[2] \in paused
                        THEN PartitionPause(md[k], resumeAll)
                        ELSE md[k]],
        err |-> IF missing = {} THEN "nil" ELSE "ErrPartitionNotFound"]

\* Variant: the store keeps what it holds.
Reset_Keep(md) == md

Reset(md) == EmptyMap


\* ------------------------------------------------------------------------
\* fsm.go: the apply functions.  Each returns the new store and the error.
\* ------------------------------------------------------------------------
\* Variant: the partition is added as if it were not being recovered.
applyCreatePartition_Started(md, d, protoPartition, recovered) ==
    AddPartition(md, d, protoPartition, FALSE)

applyCreatePartition(md, d, protoPartition, recovered) ==
    AddPartition(md, d, protoPartition, recovered)

\* Variant: no idempotency check.
applyShrinkISR_Unguarded(md, d, stream, replica, partitionID, epoch) ==
    IF ~HasPartition(md, stream, partitionID)
    THEN [metadata |-> md, disk |-> d, err |-> "No such partition"]
    ELSE LET partition == GetPartition(md, stream, partitionID)
             r == RemoveFromISR(partition, replica)
         IN IF r.err # "nil"
            THEN [metadata |-> md, disk |-> d, err |-> "failed to remove from ISR"]
            ELSE [metadata |-> [md EXCEPT ![<<stream, partitionID>>] = SetEpoch(r.p, epoch)],
                  disk |-> d, err |-> "nil"]

applyShrinkISR(md, d, stream, replica, partitionID, epoch) ==
    IF ~HasPartition(md, stream, partitionID)
    THEN [metadata |-> md, disk |-> d, err |-> "No such partition"]
    ELSE LET partition == GetPartition(md, stream, partitionID)
             r == RemoveFromISR(partition, replica)
         IN IF GetEpoch(partition) >= epoch
            THEN [metadata |-> md, disk |-> d, err |-> "nil"]
            ELSE IF r.err # "nil"
            THEN [metadata |-> md, disk |-> d, err |-> "failed to remove from ISR"]
            ELSE [metadata |-> [md EXCEPT ![<<stream, partitionID>>] = SetEpoch(r.p, epoch)],
                  disk |-> d, err |-> "nil"]

\* Variant: the epoch is not updated.
applyExpandISR_NoSetEpoch(md, d, stream, replica, partitionID, epoch) ==
    IF ~HasPartition(md, stream, partitionID)
    THEN [metadata |-> md, disk |-> d, err |-> "No such partition"]
    ELSE LET partition == GetPartition(md, stream, partitionID)
             r == AddToISR(partition, replica)
         IN IF GetEpoch(partition) >= epoch
            THEN [metadata |-> md, disk |-> d, err |-> "nil"]
            ELSE IF r.err # "nil"
            THEN [metadata |-> md, disk |-> d, err |-> "failed to add to ISR"]
            ELSE [metadata |-> [md EXCEPT ![<<stream, partitionID>>] = r.p],
                  disk |-> d, err |-> "nil"]

applyExpandISR(md, d, stream, replica, partitionID, epoch) ==
    IF ~HasPartition(md, stream, partitionID)
    THEN [metadata |-> md, disk |-> d, err |-> "No such partition"]
    ELSE LET partition == GetPartition(md, stream, partitionID)
             r == AddToISR(partition, replica)
         IN IF GetEpoch(partition) >= epoch
            THEN [metadata |-> md, disk |-> d, err |-> "nil"]
            ELSE IF r.err # "nil"
            THEN [metadata |-> md, disk |-> d, err |-> "failed to add to ISR"]
            ELSE [metadata |-> [md EXCEPT ![<<stream, partitionID>>] = SetEpoch(r.p, epoch)],
                  disk |-> d, err |-> "nil"]

applyChangeStreamLeader(md, d, stream, leader, partitionID, epoch) ==
    IF ~HasPartition(md, stream, partitionID)
    THEN [metadata |-> md, disk |-> d, err |-> "No such partition"]
    ELSE LET partition == GetPartition(md, stream, partitionID)
             r == SetLeader(partition, leader, epoch)
         IN IF GetEpoch(partition) >= epoch
            THEN [metadata |-> md, disk |-> d, err |-> "nil"]
            ELSE IF r.err # "nil"
            THEN [metadata |-> md, disk |-> d, err |-> "failed to change partition leader"]
            ELSE [metadata |-> [md EXCEPT ![<<stream, partitionID>>] = SetEpoch(r.p, epoch)],
                  disk |-> d, err |-> "nil"]

applyDeleteStream(md, d, streamName) ==
    IF ~HasStream(md, streamName)
    THEN [metadata |-> md, disk |-> d, err |-> "ErrStreamNotFound"]
    ELSE CloseAndDeleteStream(md, d, streamName)

applyPauseStream(md, d, streamName, partitions, resumeAll, inOrder) ==
    IF ~HasStream(md, streamName)
    THEN [metadata |-> md, disk |-> d, err |-> "ErrStreamNotFound"]
    ELSE LET r == StreamPause(md, streamName, partitions, resumeAll, inOrder)
         IN [metadata |-> r.metadata, disk |-> d, err |-> r.err]

\* apply, Op_CREATE_PARTITION: the epochs of the new partition are the index
\* of the entry.
\* Variant: the epochs the proposer sent are kept.
CreatePartitionProto_NoEpoch(log, index) ==
    NewProto(log.stream, log.partition)

CreatePartitionProto(log, index) ==
    [NewProto(log.stream, log.partition) EXCEPT !.leaderEpoch = index, !.epoch = index]

\* The sentinel errors apply hands back as the value instead of an error.
ReturnedAsValue(op, err) ==
    \/ op = "CREATE_PARTITION" /\ err = "ErrPartitionExists"
    \/ op = "DELETE_STREAM" /\ err = "ErrStreamNotFound"
    \/ op = "PAUSE_STREAM" /\ err \in {"ErrStreamNotFound", "ErrPartitionNotFound"}

\* Variant: an operation the switch does not know is accepted.
applyOp_UnknownAccepted(md, d, log, index, recovered, inOrder) ==
    CASE log.op = "CREATE_PARTITION" ->
            applyCreatePartition(md, d, CreatePartitionProto(log, index), recovered)
      [] log.op = "SHRINK_ISR" ->
            applyShrinkISR(md, d, log.stream, log.replica, log.partition, index)
      [] log.op = "CHANGE_LEADER" ->
            applyChangeStreamLeader(md, d, log.stream, log.replica, log.partition, index)
      [] log.op = "EXPAND_ISR" ->
            applyExpandISR(md, d, log.stream, log.replica, log.partition, index)
      [] log.op = "DELETE_STREAM" ->
            applyDeleteStream(md, d, log.stream)
      [] log.op = "PAUSE_STREAM" ->
            applyPauseStream(md, d, log.stream, log.partitions, log.resumeAll, inOrder)
      [] OTHER ->
            [metadata |-> md, disk |-> d, err |-> "nil"]

applyOp(md, d, log, index, recovered, inOrder) ==
    CASE log.op = "CREATE_PARTITION" ->
            applyCreatePartition(md, d, CreatePartitionProto(log, index), recovered)
      [] log.op = "SHRINK_ISR" ->
            applyShrinkISR(md, d, log.stream, log.replica, log.partition, index)
      [] log.op = "CHANGE_LEADER" ->
            applyChangeStreamLeader(md, d, log.stream, log.replica, log.partition, index)
      [] log.op = "EXPAND_ISR" ->
            applyExpandISR(md, d, log.stream, log.replica, log.partition, index)
      [] log.op = "DELETE_STREAM" ->
            applyDeleteStream(md, d, log.stream)
      [] log.op = "PAUSE_STREAM" ->
            applyPauseStream(md, d, log.stream, log.partitions, log.resumeAll, inOrder)
      [] OTHER ->
            [metadata |-> md, disk |-> d, err |-> "Unknown Raft operation"]

\* apply returns (value, err): a sentinel comes back as the value with a nil
\* error, any other failure as the error.
apply(md, d, log, index, recovered, inOrder) ==
    LET r == applyOp(md, d, log, index, recovered, inOrder) IN
    IF ReturnedAsValue(log.op, r.err)
    THEN [metadata |-> r.metadata, disk |-> r.disk, value |-> r.err, err |-> "nil"]
    ELSE [metadata |-> r.metadata, disk |-> r.disk, value |-> "nil", err |-> r.err]

\* ------------------------------------------------------------------------
\* fsm.go: recovery
\* ------------------------------------------------------------------------
FirstIndex == IF Len(raftLog) = 0 THEN 0 ELSE 1

\* Variant: the scan does not look at the index of the entry being applied.
RECURSIVE ScanLog_NoApplyIndex(_, _, _)
ScanLog_NoApplyIndex(i, firstIndex, applyIndex) ==
    IF i < firstIndex THEN 0
    ELSE IF raftLog[i].type = "LogCommand" THEN i
    ELSE ScanLog_NoApplyIndex(i - 1, firstIndex, applyIndex)

RECURSIVE ScanLog(_, _, _)
ScanLog(i, firstIndex, applyIndex) ==
    IF i < firstIndex THEN 0
    ELSE IF i = applyIndex /\ applyIndex = commitIndex THEN 0
    ELSE IF raftLog[i].type = "LogCommand" THEN i
    ELSE ScanLog(i - 1, firstIndex, applyIndex)

\* Variant: the entry at the commit index, of whatever type.
recoverLatestCommittedFSMLog_AnyType(applyIndex) ==
    IF FirstIndex = 0 \/ applyIndex = commitIndex THEN 0 ELSE commitIndex

\* Index of the last committed command entry, 0 for nil.
recoverLatestCommittedFSMLog(applyIndex) ==
    IF FirstIndex = 0 THEN 0 ELSE ScanLog(commitIndex, FirstIndex, applyIndex)

\* Apply: an entry is "recovered" while the barrier is set and not passed.
\* Variant: the entry at the barrier does not count as recovered.
IsRecovered_Strict(latest, index) == latest # 0 /\ index < latest

IsRecovered(latest, index) == latest # 0 /\ index <= latest

\* Apply: the entry at the barrier ends the recovery.
EndsRecovery(latest, index) == IsRecovered(latest, index) /\ index = latest

\* startedRecovery: the new value of the "output discarded" flag.
startedRecovery(discard) == IF LogRecovery THEN discard ELSE TRUE

\* finishedRecovery: restores the log output and calls StartRecovered on every
\* partition; reached is the set of partitions it got to before an error.
finishedRecovery(md, d, discard, reached) ==
    [metadata |-> [k \in DOMAIN md |->
                     IF k \in reached /\ md[k].recovered
                     THEN StartRecovered(md[k]) ELSE md[k]],
     disk |-> [k \in Keys |->
                 IF k \in reached /\ k \in DOMAIN md /\ md[k].recovered
                 THEN OpenLog(d, k)[k] ELSE d[k]],
     logDiscard |-> IF LogRecovery THEN discard ELSE FALSE,
     err |-> IF reached = DOMAIN md THEN "nil" ELSE "failed to start"]

\* The outcomes of the StartRecovered loop: all partitions, or a proper
\* subset that leaves out a partition whose start failed.
StartOutcomes(md) ==
    {reached \in SUBSET (DOMAIN md) :
        reached # DOMAIN md => \E k \in DOMAIN md \ reached : md[k].recovered}

\* ------------------------------------------------------------------------
\* fsmSnapshot: Snapshot() collects pointers to the partitions' protobufs, so
\* an entry stays aliased to the store's partition while that partition is in
\* the store, and shows every later change made to it.
\* ------------------------------------------------------------------------
NoSnapshot == [active |-> FALSE, index |-> 0, parts |-> EmptyMap, todo |-> {}, buf |-> <<>>]

AliasWrite(snap, md) ==
    [snap EXCEPT !.parts =
        [k \in DOMAIN snap.parts |->
            IF snap.parts[k].aliased /\ k \in DOMAIN md
            THEN [proto |-> md[k].proto, aliased |-> TRUE]
            ELSE [proto |-> snap.parts[k].proto, aliased |-> FALSE]]]

NoLast == [kind |-> "none", index |-> 0, op |-> "", recovered |-> FALSE,
           finished |-> FALSE, value |-> "nil", panic |-> "none", preEpoch |-> -1,
           dropped |-> {}]

NoReplay == [phase |-> "void", n |-> 0, metadata |-> EmptyMap, disk |-> EmptyMap]

TargetEpoch(md, log) ==
    IF HasPartition(md, log.stream, log.partition)
    THEN GetEpoch(GetPartition(md, log.stream, log.partition)) ELSE -1

\* applyShrinkISR, applyExpandISR and applyChangeStreamLeader change the
\* partition in two calls, RemoveFromISR / AddToISR / SetLeader and then
\* SetEpoch.  The store between the two calls; md when the entry is of another
\* kind, does not get to the first call, or the first call fails.
BetweenCalls(md, log, index) ==
    IF log.op \notin {"SHRINK_ISR", "EXPAND_ISR", "CHANGE_LEADER"} THEN md
    ELSE IF ~HasPartition(md, log.stream, log.partition) THEN md
    ELSE LET partition == GetPartition(md, log.stream, log.partition)
             r == CASE log.op = "SHRINK_ISR" -> RemoveFromISR(partition, log.replica)
                    [] log.op = "EXPAND_ISR" -> AddToISR(partition, log.replica)
                    [] OTHER -> SetLeader(partition, log.replica, index)
         IN IF GetEpoch(partition) >= index \/ r.err # "nil" THEN md
            ELSE [md EXCEPT ![<<log.stream, log.partition>>] = r.p]

\* Persist runs next to Apply and f.Marshal() takes no lock: with race, it
\* encodes the partition of the entry between the two calls of the apply
\* function.  Nothing but that Marshal sees the store between the calls, so
\* the step takes the encoding of this partition with it.
MarshalBetweenCalls(snap, mid, key) ==
    [AliasWrite(snap, mid) EXCEPT !.todo = @ \ {key},
                                  !.buf = Append(@, mid[key].proto)]

\* ------------------------------------------------------------------------
\* Server.Apply
\* ------------------------------------------------------------------------
ApplyEntry(index, reached, race, inOrder) ==
    LET l == raftLog[index]
        key == <<l.stream, l.partition>>
        mid == BetweenCalls(metadata, l, index)
        lastCommittedLog == IF ~recoveryStarted
                            THEN recoverLatestCommittedFSMLog(index)
                            ELSE latestRecoveredLog
        discard1 == IF ~recoveryStarted /\ lastCommittedLog # 0
                    THEN startedRecovery(logDiscard) ELSE logDiscard
        recovered == IsRecovered(lastCommittedLog, index)
        ends == EndsRecovery(lastCommittedLog, index)
        r == apply(metadata, disk, l, index, recovered, inOrder)
        f == finishedRecovery(r.metadata, r.disk, discard1, reached)
        md2 == IF ends THEN f.metadata ELSE r.metadata
        d2 == IF ends THEN f.disk ELSE r.disk
        panicked == (r.err # "nil" /\ ~shutdown) \/ (ends /\ f.err # "nil")
    IN /\ IF ends THEN reached \in StartOutcomes(r.metadata) ELSE reached = {}
       /\ race => /\ mid # metadata
                   /\ fsmSnapshot.active
                   /\ key \in fsmSnapshot.todo
                   /\ fsmSnapshot.parts[key].aliased
       /\ recoveryStarted' = TRUE
       /\ latestRecoveredLog' = IF ends THEN 0 ELSE lastCommittedLog
       /\ logDiscard' = IF ends THEN f.logDiscard ELSE discard1
       /\ metadata' = md2
       /\ disk' = d2
       /\ fsmSnapshot' = AliasWrite(IF race
                                     THEN MarshalBetweenCalls(fsmSnapshot, mid, key)
                                     ELSE fsmSnapshot, md2)
       /\ proc' = IF panicked THEN "aborted" ELSE "running"
       /\ finishedCount' = IF ends THEN finishedCount + 1 ELSE finishedCount
       /\ lastApplied' = index
       /\ recoveryHighWatermark' = IF ~recoveryStarted THEN lastCommittedLog
                                   ELSE recoveryHighWatermark
       /\ last' = [kind |-> "apply", index |-> index, op |-> l.op,
                   recovered |-> recovered, finished |-> ends,
                   value |-> IF r.err # "nil" THEN r.err ELSE r.value,
                   panic |-> IF r.err # "nil" /\ ~shutdown THEN "apply"
                             ELSE IF panicked THEN "recovery" ELSE "none",
                   preEpoch |-> TargetEpoch(metadata, l), dropped |-> {}]
       /\ views' = IF fsmSnapshot.active THEN [views EXCEPT !.mixed = TRUE] ELSE views
       /\ UNCHANGED <<segVars, raftLog, commitIndex, shutdown, LogRecovery, sink, replay>>

Apply ==
    /\ proc = "running"
    /\ lastApplied < commitIndex
    /\ raftLog[lastApplied + 1].type = "LogCommand"
    /\ \E reached \in SUBSET Keys, race \in BOOLEAN, inOrder \in BOOLEAN :
          ApplyEntry(lastApplied + 1, reached, race, inOrder)


\* ------------------------------------------------------------------------
\* Snapshot, fsmSnapshot.Persist, Restore
\* ------------------------------------------------------------------------
ProtoView(md) == [k \in DOMAIN md |-> md[k].proto]

NoSink == [valid |-> FALSE, index |-> 0, size |-> 0, body |-> <<>>]

NoViews == [taken |-> EmptyMap, mixed |-> FALSE,
            written |-> EmptyMap, writtenMixed |-> FALSE]

\* Snapshot: collects partition.Partition of every partition of every stream.
\* raft runs one snapshot at a time and only when entries have been applied
\* since the last one.
Snapshot ==
    /\ proc = "running"
    /\ ~fsmSnapshot.active
    /\ lastApplied > 0
    /\ sink.valid => lastApplied > sink.index
    /\ fsmSnapshot' = [active |-> TRUE, index |-> lastApplied,
                       parts |-> [k \in DOMAIN metadata |->
                                    [proto |-> metadata[k].proto, aliased |-> TRUE]],
                       todo |-> DOMAIN metadata, buf |-> <<>>]
    /\ views' = [views EXCEPT !.taken = ProtoView(metadata), !.mixed = FALSE]
    /\ UNCHANGED <<segVars, raftLog, commitIndex, lastApplied, proc, shutdown, LogRecovery,
                   recoveryStarted, latestRecoveredLog, logDiscard, metadata, disk,
                   sink, recoveryHighWatermark,
                   finishedCount, last, replay>>

\* Persist, f.Marshal(): encodes the partitions one after the other, reading
\* each through its pointer at the time it is encoded.
PersistMarshal(k) ==
    /\ proc = "running"
    /\ fsmSnapshot.active
    /\ k \in fsmSnapshot.todo
    /\ fsmSnapshot' = [fsmSnapshot EXCEPT !.todo = @ \ {k},
                                          !.buf = Append(@, fsmSnapshot.parts[k].proto)]
    /\ UNCHANGED <<segVars, raftLog, commitIndex, lastApplied, proc, shutdown, LogRecovery,
                   recoveryStarted, latestRecoveredLog, logDiscard, metadata, disk,
                   sink, recoveryHighWatermark,
                   finishedCount, last, replay, views>>

\* Persist: the 4-byte big-endian length prefix (lengths of the model fit).
\* Variant: the prefix is one short.
SizePrefix_Short(b) == Len(b) - 1

SizePrefix(b) == Len(b)

\* Persist: writes the size and the data and closes the sink, or cancels the
\* sink when a write fails.
PersistWrite(ok) ==
    /\ proc = "running"
    /\ fsmSnapshot.active
    /\ fsmSnapshot.todo = {}
    /\ sink' = IF ok
               THEN [valid |-> TRUE, index |-> fsmSnapshot.index,
                     size |-> SizePrefix(fsmSnapshot.buf), body |-> fsmSnapshot.buf]
               ELSE sink
    /\ views' = IF ok
                THEN [views EXCEPT !.written = views.taken, !.writtenMixed = views.mixed]
                ELSE views
    /\ fsmSnapshot' = NoSnapshot
    /\ UNCHANGED <<segVars, raftLog, commitIndex, lastApplied, proc, shutdown, LogRecovery,
                   recoveryStarted, latestRecoveredLog, logDiscard, metadata, disk,
                   recoveryHighWatermark,
                   finishedCount, last, replay>>

\* Restore: the loop over snap.Partitions, stopping at the first error.
RECURSIVE RestorePartitions(_, _, _)
RestorePartitions(md, d, partitions) ==
    IF Len(partitions) = 0
    THEN [metadata |-> md, disk |-> d, err |-> "nil"]
    ELSE LET r == applyCreatePartition(md, d, Head(partitions), FALSE)
         IN IF r.err # "nil" THEN r
            ELSE RestorePartitions(r.metadata, r.disk, Tail(partitions))

\* Restore: reads the size and that many bytes, decodes them, drops the state
\* and adds every partition of the snapshot.
RestoreFrom(md, d, snapshot) ==
    IF Len(snapshot.body) < snapshot.size
    THEN [metadata |-> md, disk |-> d, err |-> "unexpected EOF"]
    ELSE RestorePartitions(Reset(md), d, SubSeq(snapshot.body, 1, snapshot.size))

\* raft calls Restore at start-up or when the leader installs a snapshot; it
\* never runs next to Apply or Persist, and every entry up to the commit index
\* known at the first Apply is handed to the FSM before any later snapshot.
Restore ==
    /\ proc = "running"
    /\ sink.valid
    /\ ~fsmSnapshot.active
    /\ latestRecoveredLog = 0
    /\ sink.index >= lastApplied
    /\ LET r == RestoreFrom(metadata, disk, sink) IN
       /\ metadata' = r.metadata
       /\ disk' = r.disk
       /\ last' = [NoLast EXCEPT !.kind = "restore", !.index = sink.index,
                                 !.value = r.err,
                                 !.dropped = DOMAIN metadata \ DOMAIN r.metadata]
    /\ lastApplied' = sink.index
    /\ replay' = NoReplay
    /\ UNCHANGED <<segVars, raftLog, commitIndex, proc, shutdown, LogRecovery,
                   recoveryStarted, latestRecoveredLog, logDiscard,
                   fsmSnapshot, sink, recoveryHighWatermark,
                   finishedCount, views>>

\* ------------------------------------------------------------------------
\* Environment: raft, the process and the clients
\* ------------------------------------------------------------------------
\* The leader appends an entry and commits it.  Entries the node has not
\* learnt to be committed are invisible to the FSM, so the log of the model
\* holds committed entries only; after a restart the node learns the commit
\* index anew, in steps, before entries are appended again.
Propose(e) ==
    /\ Len(raftLog) < MaxIndex
    /\ commitIndex = Len(raftLog)
    /\ raftLog' = Append(raftLog, e)
    /\ commitIndex' = Len(raftLog) + 1
    /\ replay' = IF replay.phase = "replay" THEN NoReplay ELSE replay
    /\ UNCHANGED <<segVars, lastApplied, proc, shutdown, LogRecovery,
                   recoveryStarted, latestRecoveredLog, logDiscard, metadata, disk,
                   fsmSnapshot, sink, recoveryHighWatermark,
                   finishedCount, last, views>>

\* The node learns a larger commit index.
AdvanceCommit(c) ==
    /\ c > commitIndex
    /\ c <= Len(raftLog)
    /\ commitIndex' = c
    /\ UNCHANGED <<segVars, raftLog, lastApplied, proc, shutdown, LogRecovery,
                   recoveryStarted, latestRecoveredLog, logDiscard, metadata, disk,
                   fsmSnapshot, sink, recoveryHighWatermark,
                   finishedCount, last, replay, views>>

\* raft does not hand entries that are not commands to the FSM.
SkipNoop ==
    /\ proc = "running"
    /\ lastApplied < commitIndex
    /\ raftLog[lastApplied + 1].type # "LogCommand"
    /\ lastApplied' = lastApplied + 1
    /\ UNCHANGED <<segVars, raftLog, commitIndex, proc, shutdown, LogRecovery,
                   recoveryStarted, latestRecoveredLog, logDiscard, metadata, disk,
                   fsmSnapshot, sink, recoveryHighWatermark,
                   finishedCount, last, replay, views>>

\* The server begins to shut down.
Shutdown ==
    /\ proc = "running"
    /\ ~shutdown
    /\ shutdown' = TRUE
    /\ UNCHANGED <<segVars, raftLog, commitIndex, lastApplied, proc, LogRecovery,
                   recoveryStarted, latestRecoveredLog, logDiscard, metadata, disk,
                   fsmSnapshot, sink, recoveryHighWatermark,
                   finishedCount, last, replay, views>>

\* The process stops (or has aborted) and starts again: memory is lost, the
\* raft log, the snapshot store and the partitions' data stay on disk.
Restart ==
    /\ proc' = "running"
    /\ shutdown' = FALSE
    /\ recoveryStarted' = FALSE
    /\ latestRecoveredLog' = 0
    /\ logDiscard' = FALSE
    /\ metadata' = EmptyMap
    /\ fsmSnapshot' = NoSnapshot
    /\ finishedCount' = 0
    /\ recoveryHighWatermark' = -1
    /\ last' = NoLast
    /\ commitIndex' = 0
    /\ lastApplied' = 0
    /\ views' = [views EXCEPT !.taken = EmptyMap, !.mixed = FALSE]
    /\ replay' = IF /\ replay.phase = "first"
                    /\ proc = "running"
                    /\ ~shutdown
                    /\ lastApplied = Len(raftLog)
                 THEN [phase |-> "replay", n |-> lastApplied,
                       metadata |-> metadata, disk |-> disk]
                 ELSE NoReplay
    /\ UNCHANGED <<segVars, raftLog, LogRecovery, disk, sink>>

\* A client publishes a message to a started partition.
AppendMsg(k) ==
    /\ proc = "running"
    /\ k \in DOMAIN metadata
    /\ metadata[k].started
    /\ ~metadata[k].proto.paused
    /\ disk[k] >= 0
    /\ disk[k] < MaxMsgs
    /\ disk' = [disk EXCEPT ![k] = @ + 1]
    /\ replay' = IF replay.phase = "replay" THEN NoReplay ELSE replay
    /\ UNCHANGED <<segVars, raftLog, commitIndex, lastApplied, proc, shutdown, LogRecovery,
                   recoveryStarted, latestRecoveredLog, logDiscard, metadata,
                   fsmSnapshot, sink, recoveryHighWatermark,
                   finishedCount, last, views>>

\* ------------------------------------------------------------------------
\* commitlog/segment.go: the segment, its files and its index
\* ------------------------------------------------------------------------
\* Segment objects: "a" is a segment of the log, "b" the shadow segment that
\* Cleaned() or Truncated() makes for it.
Segs == {"a", "b"}
cleanedSuffix == ".cleaned"
truncatedSuffix == ".truncated"
Suffixes == {"", cleanedSuffix, truncatedSuffix}
Waiters == {"w1", "w2"}
Replacers == {"r1", "r2"}
BaseOffsets == {0, 2}
\* maxBytes of the segments of the model.
SegmentMaxBytes == 2
\* LogRollTime values handed to CheckSplit.
RollTimes == {-1, 0, 1, 2}

ErrSegmentClosed == "segment has been closed"
ErrSegmentExists == "segment already exists"
ErrSegmentReplaced == "segment was replaced"

\* A file of the directory; a log file holds one byte per message, written
\* here as the offset of the message.
NoFile == [present |-> FALSE, data |-> <<>>]
EmptyFile == [present |-> TRUE, data |-> <<>>]
NoFiles == [f \in {"log", "index"} \X Suffixes |-> NoFile]

logPath(s) == <<"log", s.suffix>>
indexPath(s) == <<"index", s.suffix>>
exists(fs, path) == fs[path].present

\* os.OpenFile with O_CREATE: the file is made when it is not there.
OpenFile(fs, path) == IF exists(fs, path) THEN fs ELSE [fs EXCEPT ![path] = EmptyFile]

\* An open file or index: the path it was opened at and whether it is open.
NoHandle == [path |-> <<"log", "">>, open |-> FALSE]
Handle(path) == [path |-> path, open |-> TRUE]

\* superseded (history): a Replace has renamed the log file of another
\* segment over the log file of this one.
NoSegment ==
    [made |-> FALSE, BaseOffset |-> 0, firstOffset |-> -1, lastOffset |-> -1,
     firstWriteTime |-> 0, lastWriteTime |-> 0, position |-> 0, maxBytes |-> 0,
     suffix |-> "", waiters |-> EmptyMap, sealed |-> FALSE, closed |-> FALSE,
     replaced |-> FALSE, log |-> NoHandle, Index |-> NoHandle,
     superseded |-> FALSE, deleting |-> FALSE]

\* An index entry.
IndexEntry(offset, timestamp, position) ==
    [Offset |-> offset, Timestamp |-> timestamp, Position |-> position]

\* Index (design text 4.1): the last entry of the index file, <<>> for none.
InitializePosition(fs, path) ==
    IF Len(fs[path].data) = 0 THEN <<>> ELSE <<fs[path].data[Len(fs[path].data)]>>

ReadEntryAtFileOffset(fs, path, i) == fs[path].data[i + 1]

writeEntries(fs, path, entries) == [fs EXCEPT ![path].data = @ \o entries]

\* The call of setupIndex on the new index that fails, "none" for neither.  A
\* failure of newIndex itself is left out: what it leaves in s.Index is decided
\* by the index, not by the segment.
SetupIndexFailures == {"none", "InitializePosition", "ReadEntryAtFileOffset"}

\* setupIndex: opens the index and takes first and last offset and write
\* time from its entries.  s.Index is assigned before anything can fail, and
\* last offset and write time before the first entry is read.
setupIndex(s, fs, fail) ==
    LET fs1 == OpenFile(fs, indexPath(s))
        lastEntry == InitializePosition(fs1, indexPath(s))
        s1 == [s EXCEPT !.Index = Handle(indexPath(s))]
        s2 == [s1 EXCEPT !.lastOffset = lastEntry[1].Offset,
                         !.lastWriteTime = lastEntry[1].Timestamp]
    IN IF fail = "InitializePosition"
       THEN [files |-> fs1, seg |-> s1, err |-> "index failed"]
       ELSE IF lastEntry = <<>>
       THEN [files |-> fs1, seg |-> s1, err |-> "nil"]
       ELSE IF fail = "ReadEntryAtFileOffset"
       THEN [files |-> fs1, seg |-> s2, err |-> "index failed"]
       ELSE [files |-> fs1,
             seg |-> [s2 EXCEPT
                        !.firstOffset = ReadEntryAtFileOffset(fs1, indexPath(s), 0).Offset,
                        !.firstWriteTime = ReadEntryAtFileOffset(fs1, indexPath(s), 0).Timestamp],
             err |-> "nil"]

newSegment(fs, baseOffset, maxBytes, isNew, suffix) ==
    LET s == [NoSegment EXCEPT !.made = TRUE, !.maxBytes = maxBytes,
                               !.BaseOffset = baseOffset, !.suffix = suffix]
        fs1 == OpenFile(fs, logPath(s))
        s1 == [s EXCEPT !.log = Handle(logPath(s)),
                        !.position = Len(fs1[logPath(s)].data)]
        r == setupIndex(s1, fs1, "none")
    IN IF isNew /\ exists(fs, logPath(s))
       THEN [seg |-> NoSegment, files |-> fs, err |-> ErrSegmentExists]
       ELSE [seg |-> r.seg, files |-> r.files, err |-> "nil"]

\* The write lock of segment x is held by a Replace that waits for the lock
\* of the other segment.
Locked(x) == \E r \in Replacers : replacers[r].pc = "hasLock" /\ replacers[r].s = x

\* ------------------------------------------------------------------------
\* Channels of the waiters: chans[c] counts the close(c) calls
\* ------------------------------------------------------------------------
IsClosed(ch, c) == ch[c] > 0

\* close(ch) for the channel of every waiter in ws.
RECURSIVE CloseAll(_, _, _)
CloseAll(ch, waiters, ws) ==
    IF ws = {} THEN ch
    ELSE LET r == CHOOSE x \in ws : TRUE
         IN CloseAll([ch EXCEPT ![waiters[r]] = @ + 1], waiters, ws \ {r})

\* Variant: the waiters stay in the map.
notifyWaiters_NoDelete(s, ch) ==
    [seg |-> s, chans |-> CloseAll(ch, s.waiters, DOMAIN s.waiters)]

\* notifyWaiters: closes the channel of every waiter and deletes the waiter.
notifyWaiters(s, ch) ==
    [seg |-> [s EXCEPT !.waiters = EmptyMap],
     chans |-> CloseAll(ch, s.waiters, DOMAIN s.waiters)]

\* The channels somebody still holds: those in a waiters map and the one each
\* reader got from its last call.
InUse == UNION {Range(seg[x].waiters) : x \in Segs}
         \cup {readers[w].ch : w \in Waiters}

\* make(chan struct{}): a channel nobody holds, open.
NewChan == CHOOSE c \in 1..MaxChans : c \notin InUse /\ \A d \in 1..(c - 1) : d \in InUse

\* ------------------------------------------------------------------------
\* commitlog/segment.go: operations of one segment
\* ------------------------------------------------------------------------
\* The last call: result is the number of waiters a write or a seal notified,
\* or what CheckSplit returned (1 for true).
NoSegLast == [op |-> "none", seg |-> "a", waiter |-> "", arg |-> 0, result |-> 0,
              err |-> "nil", closedOnReturn |-> FALSE]

NextOffset(s) == IF s.lastOffset = -1 THEN s.BaseOffset ELSE s.lastOffset + 1

\* The message sets the commit log hands to a segment: one or two messages
\* with the next offsets; the first may carry timestamp 0.
MessageSets(s) ==
    {[i \in 1..k |-> IndexEntry(NextOffset(s) + i - 1,
                                IF i = 1 THEN t ELSE clock,
                                s.position + i - 1)] :
        k \in 1..2, t \in {0, clock}}

\* The bytes of a message set: one per message.
Bytes(entries) == [i \in 1..Len(entries) |-> entries[i].Offset]

\* write: n is what writer.Write reports as written; fewer bytes than handed
\* over come with an error.
write(s, fs, ch, p, entries, n) ==
    LET fs1 == [fs EXCEPT ![s.log.path].data = @ \o SubSeq(p, 1, n)]
        first == entries[1]
        lastE == entries[Len(entries)]
        s1 == [s EXCEPT !.position = @ + n]
        s2 == IF s.firstWriteTime = 0
              THEN [s1 EXCEPT !.firstOffset = first.Offset,
                              !.firstWriteTime = first.Timestamp]
              ELSE s1
        s3 == [s2 EXCEPT !.lastOffset = lastE.Offset,
                         !.lastWriteTime = lastE.Timestamp]
        nw == notifyWaiters(s3, ch)
    IN IF s.closed
       THEN [seg |-> s, files |-> fs, chans |-> ch, n |-> 0, err |-> ErrSegmentClosed]
       ELSE IF n < Len(p)
       THEN [seg |-> s, files |-> fs1, chans |-> ch, n |-> n, err |-> "log write failed"]
       ELSE [seg |-> nw.seg, files |-> fs1, chans |-> nw.chans, n |-> n, err |-> "nil"]

\* WriteMessageSet: write, then the entries go to the index unless that fails.
WriteMessageSet(x, entries, n, indexOk) ==
    /\ seg[x].made
    /\ ~Locked(x)
    /\ Len(files[seg[x].log.path].data) + Len(entries) <= MaxLog
    /\ n \in 0..Len(entries)
    /\ (~seg[x].log.open \/ seg[x].closed) => n = 0
    /\ (n < Len(entries) \/ seg[x].closed) => indexOk
    /\ LET r == write(seg[x], files, chans, Bytes(entries), entries, n)
           fs2 == IF r.err = "nil" /\ indexOk
                  THEN writeEntries(r.files, seg[x].Index.path, entries)
                  ELSE r.files
       IN /\ seg' = [seg EXCEPT ![x] = r.seg]
          /\ files' = fs2
          /\ chans' = r.chans
          /\ segLast' = [NoSegLast EXCEPT
                           !.op = "WriteMessageSet", !.seg = x,
                           !.result = IF r.err = "nil"
                                      THEN Cardinality(DOMAIN seg[x].waiters) ELSE 0,
                           !.err = IF r.err # "nil" THEN r.err
                                   ELSE IF indexOk THEN "nil" ELSE "index write failed"]
    /\ UNCHANGED <<vars, readers, clock, replaceVars>>

\* Seal: a no-op on a sealed segment; else marks it, notifies the waiters and
\* shrinks the index.
Seal(x) ==
    /\ seg[x].made
    /\ ~Locked(x)
    /\ LET nw == notifyWaiters([seg[x] EXCEPT !.sealed = TRUE], chans)
       IN IF seg[x].sealed
          THEN /\ UNCHANGED <<seg, chans>>
               /\ segLast' = [NoSegLast EXCEPT !.op = "Seal", !.seg = x]
          ELSE /\ seg' = [seg EXCEPT ![x] = nw.seg]
               /\ chans' = nw.chans
               /\ segLast' = [NoSegLast EXCEPT !.op = "Seal", !.seg = x,
                                               !.result = Cardinality(DOMAIN seg[x].waiters)]
    /\ UNCHANGED <<vars, files, readers, clock, replaceVars>>

\* CheckSplit: the segment is full, or LogRollTime has passed since the first
\* write.
CheckSplit(s, logRollTime, now) ==
    IF s.position >= s.maxBytes THEN TRUE
    ELSE IF logRollTime = 0 \/ s.firstWriteTime = 0 THEN FALSE
    ELSE now - s.firstWriteTime >= logRollTime

CallCheckSplit(x, logRollTime) ==
    /\ seg[x].made
    /\ ~Locked(x)
    /\ segLast' = [NoSegLast EXCEPT !.op = "CheckSplit", !.seg = x,
                                    !.arg = logRollTime,
                                    !.result = IF CheckSplit(seg[x], logRollTime, clock)
                                               THEN 1 ELSE 0]
    /\ UNCHANGED <<vars, seg, files, chans, readers, clock, replaceVars>>

\* The clock moves on.
Tick ==
    /\ clock < MaxClock
    /\ clock' = clock + 1
    /\ UNCHANGED <<vars, seg, files, chans, readers, replaceVars, segLast>>


\* ------------------------------------------------------------------------
\* commitlog/segment.go: waiters
\* ------------------------------------------------------------------------
\* waitForData: the channel of a registered waiter, or a new channel that is
\* closed at once when there is data past pos or the segment is full, and
\* registered otherwise.
waitForData(s, ch, waiter, pos) ==
    LET wait == NewChan
        ch1 == [ch EXCEPT ![wait] = 0]
    IN IF waiter \in DOMAIN s.waiters
       THEN [seg |-> s, chans |-> ch, wait |-> s.waiters[waiter]]
       ELSE IF s.position > pos \/ s.position >= s.maxBytes
       THEN [seg |-> s, chans |-> [ch1 EXCEPT ![wait] = @ + 1], wait |-> wait]
       ELSE [seg |-> [s EXCEPT !.waiters =
                        [r \in DOMAIN s.waiters \cup {waiter} |->
                            IF r = waiter THEN wait ELSE s.waiters[r]]],
             chans |-> ch1, wait |-> wait]

\* WaitForLEO: a closed channel when leo is not the last offset, else
\* waitForData at the segment's position.
waitForLEO(s, ch, waiter, leo) ==
    IF s.lastOffset # leo
    THEN [seg |-> s, chans |-> [ch EXCEPT ![NewChan] = 1], wait |-> NewChan]
    ELSE waitForData(s, ch, waiter, s.position)

NoReplacer == [pc |-> "idle", s |-> "a", old |-> "a"]

\* The fetching reader: the segment and the index entry it resolved, what its
\* last ReadAt gave, and how often it was told that the segment was replaced.
NoFetcher == [pc |-> "idle", offset |-> 0, seg |-> "a", entry |-> <<>>,
              data |-> -1, err |-> "nil", retries |-> 0]

\* sawSealed (history): the segment was sealed when the reader observed it.
NoReader == [pc |-> "idle", seg |-> "a", pos |-> 0, leo |-> -1, ch |-> 0,
             sawSealed |-> FALSE]

\* A reader at the end of a segment of the log finds no new data: it notes the
\* position and the last offset it has seen.
ReaderObserve(w, x) ==
    /\ readers[w].pc = "idle"
    /\ seg[x].made
    /\ seg[x].suffix = ""
    /\ ~Locked(x)
    /\ readers' = [readers EXCEPT ![w] = [@ EXCEPT !.pc = "observed", !.seg = x,
                                                  !.pos = seg[x].position,
                                                  !.leo = seg[x].lastOffset,
                                                  !.sawSealed = seg[x].sealed]]
    /\ UNCHANGED <<vars, seg, files, chans, clock, replaceVars, segLast>>

\* A waiter asks for a channel: it lets go of the channel it had.
WaitCall(w, r, op, arg) ==
    /\ seg' = [seg EXCEPT ![readers[w].seg] = r.seg]
    /\ chans' = IF readers[w].ch \in {0, r.wait} THEN r.chans
                ELSE [r.chans EXCEPT ![readers[w].ch] = 0]
    /\ readers' = [readers EXCEPT ![w] = [@ EXCEPT !.pc = "waiting", !.ch = r.wait]]
    /\ segLast' = [NoSegLast EXCEPT !.op = op, !.seg = readers[w].seg,
                                    !.waiter = w, !.arg = arg,
                                    !.closedOnReturn = IsClosed(r.chans, r.wait)]
    /\ UNCHANGED <<vars, files, clock, replaceVars>>

WaitForData(w, pos) ==
    /\ seg[readers[w].seg].made
    /\ ~Locked(readers[w].seg)
    /\ WaitCall(w, waitForData(seg[readers[w].seg], chans, w, pos),
                "WaitForData", pos)

WaitForLEO(w, leo) ==
    /\ seg[readers[w].seg].made
    /\ ~Locked(readers[w].seg)
    /\ WaitCall(w, waitForLEO(seg[readers[w].seg], chans, w, leo),
                "WaitForLEO", leo)

\* The reader's channel is closed: the reader goes on and lets go of the
\* channel.
ReaderWake(w) ==
    /\ readers[w].pc = "waiting"
    /\ IsClosed(chans, readers[w].ch)
    /\ readers' = [readers EXCEPT ![w] = NoReader]
    /\ chans' = [chans EXCEPT ![readers[w].ch] = 0]
    /\ UNCHANGED <<vars, seg, files, clock, replaceVars, segLast>>

\* Variant: the channel of the waiter is closed as it is deleted.
removeWaiter_Close(w) ==
    /\ seg[readers[w].seg].made
    /\ ~Locked(readers[w].seg)
    /\ LET x == readers[w].seg IN
       /\ seg' = [seg EXCEPT ![x].waiters =
                    [r \in DOMAIN seg[x].waiters \ {w} |-> seg[x].waiters[r]]]
       /\ chans' = IF w \in DOMAIN seg[x].waiters
                   THEN [chans EXCEPT ![seg[x].waiters[w]] = @ + 1] ELSE chans
       /\ segLast' = [NoSegLast EXCEPT !.op = "removeWaiter", !.seg = x,
                                       !.waiter = w]
    /\ readers' = [readers EXCEPT ![w] = [NoReader EXCEPT !.ch = readers[w].ch]]
    /\ UNCHANGED <<vars, files, clock, replaceVars>>

\* removeWaiter: the waiter is deleted from the map (cancellation, timeout);
\* the caller keeps the channel it was given.
removeWaiter(w) ==
    /\ seg[readers[w].seg].made
    /\ ~Locked(readers[w].seg)
    /\ LET x == readers[w].seg IN
       /\ seg' = [seg EXCEPT ![x].waiters =
                    [r \in DOMAIN seg[x].waiters \ {w} |-> seg[x].waiters[r]]]
       /\ segLast' = [NoSegLast EXCEPT !.op = "removeWaiter", !.seg = x,
                                       !.waiter = w]
    /\ readers' = [readers EXCEPT ![w] = [NoReader EXCEPT !.ch = readers[w].ch]]
    /\ UNCHANGED <<vars, files, chans, clock, replaceVars>>

\* ------------------------------------------------------------------------
\* commitlog/segment.go: Close, ReadAt, and the process starting again
\* ------------------------------------------------------------------------
\* close: fail names the Close call that fails, "none" for neither.  A file
\* whose Close failed cannot be used any more.
close(s, fail) ==
    IF s.closed THEN [seg |-> s, err |-> "nil"]
    ELSE IF fail = "log"
    THEN [seg |-> [s EXCEPT !.log.open = FALSE], err |-> "close failed"]
    ELSE IF fail = "index"
    THEN [seg |-> [s EXCEPT !.log.open = FALSE, !.Index.open = FALSE],
          err |-> "close failed"]
    ELSE [seg |-> [s EXCEPT !.log.open = FALSE, !.Index.open = FALSE,
                            !.closed = TRUE],
          err |-> "nil"]

CloseFailures == {"none", "log", "index"}

Close(x, fail) ==
    /\ seg[x].made
    /\ ~Locked(x)
    /\ seg[x].closed => fail = "none"
    /\ LET r == close(seg[x], fail) IN
       /\ seg' = [seg EXCEPT ![x] = r.seg]
       /\ segLast' = [NoSegLast EXCEPT !.op = "Close", !.seg = x,
                                       !.err = r.err]
    /\ UNCHANGED <<vars, files, chans, readers, clock, replaceVars>>

\* The os.Remove call of Delete that fails, "none" for neither.
RemoveFailures == {"none", "log", "index"}

\* Delete, the call of Close: the files are removed in a second critical
\* section when Close has returned nil.
Delete(x, fail) ==
    /\ seg[x].made
    /\ ~Locked(x)
    /\ ~seg[x].deleting
    /\ seg[x].closed => fail = "none"
    /\ LET r == close(seg[x], fail) IN
       /\ seg' = [seg EXCEPT ![x] = [r.seg EXCEPT !.deleting = r.err = "nil"]]
       /\ segLast' = [NoSegLast EXCEPT !.op = "Delete", !.seg = x, !.err = r.err]
    /\ UNCHANGED <<vars, files, chans, readers, clock, replaceVars>>

\* Delete, after Close: removes the file the log was opened under and the
\* file of the index, each if it exists.
DeleteFiles(x, fail) ==
    /\ seg[x].deleting
    /\ ~Locked(x)
    /\ LET logName == seg[x].log.path
           indexName == seg[x].Index.path
           fs1 == IF exists(files, logName) /\ fail # "log"
                  THEN [files EXCEPT ![logName] = NoFile] ELSE files
           fs2 == IF exists(fs1, indexName) /\ fail # "index"
                  THEN [fs1 EXCEPT ![indexName] = NoFile] ELSE fs1
       IN /\ fail = "log" => exists(files, logName)
          /\ fail = "index" => exists(files, indexName)
          /\ files' = IF fail = "log" THEN files ELSE fs2
          /\ segLast' = [NoSegLast EXCEPT !.op = "Delete", !.seg = x,
                                          !.err = IF fail = "none" THEN "nil"
                                                  ELSE "remove failed"]
    /\ seg' = [seg EXCEPT ![x].deleting = FALSE]
    /\ UNCHANGED <<vars, chans, readers, clock, replaceVars>>

\* ReadAt: one byte at off; data is the offset of the message read, -1 when
\* nothing was read.
ReadAt(s, fs, off) ==
    IF s.closed
    THEN IF s.replaced
         THEN [data |-> -1, err |-> ErrSegmentReplaced]
         ELSE [data |-> -1, err |-> ErrSegmentClosed]
    ELSE IF ~s.log.open
    THEN [data |-> -1, err |-> "file already closed"]
    ELSE IF off >= Len(fs[s.log.path].data)
    THEN [data |-> -1, err |-> "EOF"]
    ELSE [data |-> fs[s.log.path].data[off + 1], err |-> "nil"]

\* The process stops and starts again: the segment objects, the waiters and
\* their channels are gone, the files stay, and the segment of the log is
\* opened from its files.
Reopen ==
    /\ seg["a"].made
    /\ LET r == newSegment(files, seg["a"].BaseOffset, seg["a"].maxBytes, FALSE, "")
       IN /\ seg' = [x \in Segs |-> IF x = "a" THEN r.seg ELSE NoSegment]
          /\ files' = r.files
    /\ chans' = [c \in 1..MaxChans |-> 0]
    /\ readers' = [w \in Waiters |-> NoReader]
    /\ replacers' = [r \in Replacers |-> NoReplacer]
    /\ logSeg' = "a"
    /\ fetcher' = NoFetcher
    /\ segLast' = [NoSegLast EXCEPT !.op = "newSegment"]
    /\ UNCHANGED <<vars, clock>>

\* ------------------------------------------------------------------------
\* commitlog/segment.go: Cleaned, Replace, findEntry
\* ------------------------------------------------------------------------
\* Cleaned: the shadow segment of the log's segment, at the same base offset
\* with the suffix ".cleaned".  It takes no lock; the model has one object for
\* a shadow segment, so one is made while there is none.
Cleaned ==
    /\ seg["a"].made
    /\ ~seg["b"].made
    /\ LET r == newSegment(files, seg["a"].BaseOffset, seg["a"].maxBytes, FALSE,
                           cleanedSuffix)
       IN /\ seg' = [seg EXCEPT !["b"] = r.seg]
          /\ files' = r.files
    /\ segLast' = [NoSegLast EXCEPT !.op = "Cleaned", !.seg = "b"]
    /\ UNCHANGED <<vars, chans, readers, clock, replaceVars>>

\* Truncated: the shadow segment at the same base offset with the suffix
\* ".truncated".
Truncated ==
    /\ seg["a"].made
    /\ ~seg["b"].made
    /\ LET r == newSegment(files, seg["a"].BaseOffset, seg["a"].maxBytes, FALSE,
                           truncatedSuffix)
       IN /\ seg' = [seg EXCEPT !["b"] = r.seg]
          /\ files' = r.files
    /\ segLast' = [NoSegLast EXCEPT !.op = "Truncated", !.seg = "b"]
    /\ UNCHANGED <<vars, chans, readers, clock, replaceVars>>

\* The message sets the cleaner copies into the shadow segment: one message
\* the log's segment holds, beyond those already copied.
RetainedSets ==
    {<<IndexEntry(e.Offset, e.Timestamp, seg["b"].position)>> :
        e \in {x \in Range(files[seg["a"].Index.path].data) :
                  x.Offset > seg["b"].lastOffset}}

\* findEntry: the first index entry whose offset is greater than or equal to
\* offset, <<>> for ErrEntryNotFound.
findEntry(s, fs, offset) ==
    LET data == fs[s.Index.path].data
        hits == {i \in 1..Len(data) : data[i].Offset >= offset}
    IN IF hits = {} THEN <<>>
       ELSE <<data[CHOOSE i \in hits : \A j \in hits : i <= j]>>

\* os.Rename: fails when there is no file at the old path.
Rename(fs, from, to) ==
    IF ~exists(fs, from) THEN [files |-> fs, err |-> "rename failed"]
    ELSE IF from = to THEN [files |-> fs, err |-> "nil"]
    ELSE [files |-> [fs EXCEPT ![to] = fs[from], ![from] = NoFile], err |-> "nil"]

\* The step of Replace that fails, "none" for a Replace that goes through.
ReplaceFailures == {"none", "closeOld", "closeNew", "renameLog", "renameIndex",
                    "open", "InitializePosition", "ReadEntryAtFileOffset"}

\* Replace with both write locks held: closes both segments, renames the
\* files of s to the paths of old, opens s again and marks old as replaced.
ReplaceBody(s, old, fs, fail) ==
    LET c1 == close(old, IF fail = "closeOld" THEN "log" ELSE "none")
        c2 == close(s, IF fail = "closeNew" THEN "index" ELSE "none")
        r1 == Rename(fs, logPath(s), logPath(old))
        r2 == Rename(r1.files, indexPath(s), indexPath(old))
        s3 == [c2.seg EXCEPT !.suffix = ""]
        fs3 == OpenFile(r2.files, logPath(s3))
        s4 == [s3 EXCEPT !.log = Handle(logPath(s3)), !.closed = FALSE]
        old2 == [c1.seg EXCEPT !.superseded = TRUE]
        old4 == [old2 EXCEPT !.replaced = TRUE]
        si == setupIndex(s4, fs3, IF fail \in SetupIndexFailures THEN fail ELSE "none")
    IN IF c1.err # "nil"
       THEN [s |-> s, old |-> c1.seg, files |-> fs, err |-> c1.err]
       ELSE IF c2.err # "nil"
       THEN [s |-> c2.seg, old |-> c1.seg, files |-> fs, err |-> c2.err]
       ELSE IF fail = "renameLog" \/ r1.err # "nil"
       THEN [s |-> c2.seg, old |-> c1.seg, files |-> fs, err |-> "rename failed"]
       ELSE IF fail = "renameIndex" \/ r2.err # "nil"
       THEN [s |-> c2.seg, old |-> old2, files |-> r1.files, err |-> "rename failed"]
       ELSE IF fail = "open"
       THEN [s |-> s3, old |-> old2, files |-> r2.files, err |-> "open file failed"]
       ELSE [s |-> si.seg, old |-> old4, files |-> si.files, err |-> si.err]

\* Replace, s.Lock(): the caller holds the write lock of s.
ReplaceLock(r, x, y) ==
    /\ replacers[r].pc = "idle"
    /\ x # y
    /\ seg[x].made /\ seg[y].made
    /\ ~Locked(x)
    /\ replacers' = [replacers EXCEPT ![r] = [pc |-> "hasLock", s |-> x, old |-> y]]
    /\ UNCHANGED <<vars, seg, files, chans, readers, clock, logSeg, fetcher, segLast>>

\* Replace, from old.Lock() to the return.
Replace(r, fail) ==
    /\ replacers[r].pc = "hasLock"
    /\ ~Locked(replacers[r].old)
    /\ LET x == replacers[r].s
           y == replacers[r].old
           b == ReplaceBody(seg[x], seg[y], files, fail)
       IN /\ fail = "closeOld" => ~seg[y].closed
          /\ fail = "closeNew" => ~seg[x].closed
          /\ seg' = [seg EXCEPT ![x] = b.s, ![y] = b.old]
          /\ files' = b.files
          /\ segLast' = [NoSegLast EXCEPT !.op = "Replace", !.seg = x, !.err = b.err]
          /\ replacers' = [replacers EXCEPT ![r] =
                             IF b.err = "nil" THEN [@ EXCEPT !.pc = "returned"]
                             ELSE NoReplacer]
    /\ UNCHANGED <<vars, chans, readers, clock, logSeg, fetcher>>

\* The caller of a Replace that returned nil lists s in the place of old in
\* the commit log, with both segment locks released.
ReplaceInLog(r) ==
    /\ replacers[r].pc = "returned"
    /\ logSeg' = IF logSeg = replacers[r].old THEN replacers[r].s ELSE logSeg
    /\ replacers' = [replacers EXCEPT ![r] = NoReplacer]
    /\ UNCHANGED <<vars, seg, files, chans, readers, clock, fetcher, segLast>>

\* A reader positioned at an offset resolves the segment through the log and
\* looks the offset up in the segment's index; findEntry does not look at
\* closed, and the index gives what the file at its path holds.
FetchResolve(o) ==
    /\ fetcher.pc \in {"idle", "retry"}
    /\ fetcher.pc = "retry" => o = fetcher.offset /\ fetcher.retries < MaxRetries
    /\ seg[logSeg].made
    /\ ~Locked(logSeg)
    /\ findEntry(seg[logSeg], files, o) # <<>>
    /\ fetcher' = [fetcher EXCEPT !.pc = "resolved", !.offset = o, !.seg = logSeg,
                                  !.entry = findEntry(seg[logSeg], files, o)]
    /\ UNCHANGED <<vars, seg, files, chans, readers, clock, replacers, logSeg, segLast>>

\* The reader reads the message at the position of the entry; told that the
\* segment was replaced, it starts again at the log.
FetchRead ==
    /\ fetcher.pc = "resolved"
    /\ ~Locked(fetcher.seg)
    /\ LET r == ReadAt(seg[fetcher.seg], files, fetcher.entry[1].Position)
       IN /\ fetcher' = [fetcher EXCEPT
                           !.pc = IF r.err = "nil" THEN "done"
                                  ELSE IF r.err = ErrSegmentReplaced THEN "retry"
                                  ELSE "failed",
                           !.data = r.data, !.err = r.err,
                           !.retries = IF r.err = ErrSegmentReplaced THEN @ + 1 ELSE @]
          /\ segLast' = [NoSegLast EXCEPT !.op = "ReadAt", !.seg = fetcher.seg,
                                          !.err = r.err]
    /\ UNCHANGED <<vars, seg, files, chans, readers, clock, replacers, logSeg>>

\* The reader has its message, or has given up, and turns to another offset.
FetchNext ==
    /\ fetcher.pc \in {"done", "failed"}
    /\ fetcher' = NoFetcher
    /\ UNCHANGED <<vars, seg, files, chans, readers, clock, replacers, logSeg, segLast>>

\* ------------------------------------------------------------------------
\* Specification
\* ------------------------------------------------------------------------
InitController ==
    /\ raftLog = <<>>
    /\ commitIndex = 0
    /\ lastApplied = 0
    /\ proc = "running"
    /\ shutdown = FALSE
    /\ LogRecovery = FALSE
    /\ recoveryStarted = FALSE
    /\ latestRecoveredLog = 0
    /\ logDiscard = FALSE
    /\ metadata = EmptyMap
    /\ disk = [k \in Keys |-> -1]
    /\ fsmSnapshot = NoSnapshot
    /\ sink = NoSink
    /\ finishedCount = 0
    /\ recoveryHighWatermark = -1
    /\ last = NoLast
    /\ replay = [phase |-> "first", n |-> 0, metadata |-> EmptyMap, disk |-> EmptyMap]
    /\ views = NoViews

\* No segment has been made.
NoSegments ==
    /\ seg = [x \in Segs |-> NoSegment]
    /\ files = NoFiles
    /\ chans = [c \in 1..MaxChans |-> 0]
    /\ readers = [w \in Waiters |-> NoReader]
    /\ clock = 1
    /\ replacers = [r \in Replacers |-> NoReplacer]
    /\ logSeg = "a"
    /\ fetcher = NoFetcher
    /\ segLast = NoSegLast

Init == InitController /\ NoSegments

Next ==
    \/ \E e \in Entries : Propose(e)
    \/ \E c \in 1..MaxIndex : AdvanceCommit(c)
    \/ Apply
    \/ SkipNoop
    \/ Shutdown
    \/ Restart
    \/ \E k \in Keys : AppendMsg(k)

Spec == Init /\ [][Next]_vars

\* The same with raft going on to hand every committed entry to the FSM for
\* as long as the process runs.
SpecRecovery == Spec /\ WF_vars(Apply) /\ WF_vars(SkipNoop)

\* The FSM with snapshots: raft takes snapshots, persists them next to Apply,
\* and restores them at start-up or on the leader's request.  Restarts of a
\* node that has no snapshot are those of Spec.
SnapshotEntries ==
    CreateOps \cup ShrinkOps \cup ExpandOps \cup LeaderOps \cup DeleteOps
    \cup {e \in PauseOps : e.partitions = <<>>}

NextSnapshot ==
    \/ \E e \in SnapshotEntries : Propose(e)
    \/ \E c \in 1..MaxIndex : AdvanceCommit(c)
    \/ Apply
    \/ Snapshot
    \/ \E k \in Keys : PersistMarshal(k)
    \/ \E ok \in BOOLEAN : PersistWrite(ok)
    \/ Restore
    \/ (sink.valid /\ Restart)

SpecSnapshot == Init /\ [][NextSnapshot]_vars


\* One segment of a commit log with its writer and its readers: the segment is
\* made new at one of the base offsets.
InitSegment ==
    /\ InitController
    /\ \E b \in BaseOffsets :
          LET r == newSegment(NoFiles, b, SegmentMaxBytes, TRUE, "")
          IN /\ seg = [x \in Segs |-> IF x = "a" THEN r.seg ELSE NoSegment]
             /\ files = r.files
    /\ chans = [c \in 1..MaxChans |-> 0]
    /\ readers = [w \in Waiters |-> NoReader]
    /\ clock = 1
    /\ replacers = [r \in Replacers |-> NoReplacer]
    /\ logSeg = "a"
    /\ fetcher = NoFetcher
    /\ segLast = NoSegLast

NextSegment ==
    \/ \E e \in MessageSets(seg["a"]), n \in 0..2, indexOk \in BOOLEAN :
          WriteMessageSet("a", e, n, indexOk)
    \/ Seal("a")
    \/ \E t \in RollTimes : CallCheckSplit("a", t)
    \/ Tick
    \/ \E fail \in CloseFailures : Close("a", fail)
    \/ Reopen

SpecSegment == InitSegment /\ [][NextSegment]_segVars

\* The segment written, closed and deleted, and made again from what is left
\* in the directory.
NextDelete ==
    \/ \E e \in MessageSets(seg["a"]) :
          /\ Len(files[seg["a"].Index.path].data) + Len(e) <= MaxLog
          /\ WriteMessageSet("a", e, Len(e), TRUE)
    \/ \E fail \in CloseFailures : Close("a", fail)
    \/ \E fail \in CloseFailures : Delete("a", fail)
    \/ \E fail \in RemoveFailures : DeleteFiles("a", fail)
    \/ Reopen

SpecDelete == InitSegment /\ [][NextDelete]_segVars

\* The segment with the readers that wait at its end; every write goes
\* through.
NextWaiters ==
    \/ \E e \in MessageSets(seg["a"]) : WriteMessageSet("a", e, Len(e), TRUE)
    \/ Seal("a")
    \/ \E w \in Waiters : ReaderObserve(w, "a")
    \/ \E w \in Waiters :
          readers[w].pc = "observed" /\ WaitForData(w, readers[w].pos)
    \/ \E w \in Waiters :
          readers[w].pc = "observed" /\ WaitForLEO(w, readers[w].leo)
    \/ \E w \in Waiters : ReaderWake(w)
    \/ \E w \in Waiters : readers[w].pc = "waiting" /\ removeWaiter(w)

SpecWaiters == InitSegment /\ [][NextWaiters]_segVars

\* Waiters that call at any time, next to the writer: with a position up to
\* the segment's, and with the offset before the last, the last offset of the
\* segment or of the log, or the next offset.
Positions(s) == 0..s.position
Offsets(s) == {o \in {s.lastOffset, NextOffset(s) - 2, NextOffset(s) - 1, NextOffset(s)} :
                  o >= -1}

NextCalls ==
    \/ \E e \in MessageSets(seg["a"]) : WriteMessageSet("a", e, Len(e), TRUE)
    \/ Seal("a")
    \/ \E w \in Waiters, pos \in Positions(seg["a"]) : WaitForData(w, pos)
    \/ \E w \in Waiters, leo \in Offsets(seg["a"]) : WaitForLEO(w, leo)
    \/ \E w \in Waiters : removeWaiter(w)

SpecCalls == InitSegment /\ [][NextCalls]_segVars

\* Replace called by two callers on the two segments, either one the
\* receiver, next to the writer of the log's segment and the cleaner; no
\* step of a Replace fails.
NextLocks ==
    \/ \E e \in MessageSets(seg["a"]) :
          ~seg["b"].made /\ WriteMessageSet("a", e, Len(e), TRUE)
    \/ Cleaned
    \/ \E e \in RetainedSets : seg["b"].suffix # "" /\ WriteMessageSet("b", e, 1, TRUE)
    \/ \E r \in Replacers, x, y \in Segs : ReplaceLock(r, x, y)
    \/ \E r \in Replacers : Replace(r, "none")
    \/ \E r \in Replacers : ReplaceInLog(r)

SpecLocks == InitSegment /\ [][NextLocks]_segVars

\* Compaction of the log's segment next to a reader: the cleaner copies
\* messages into the shadow segment and replaces the segment with it.
NextReplace ==
    \/ \E e \in MessageSets(seg["a"]) :
          ~seg["b"].made /\ WriteMessageSet("a", e, Len(e), TRUE)
    \/ Cleaned
    \/ Truncated
    \/ \E e \in RetainedSets : seg["b"].suffix # "" /\ WriteMessageSet("b", e, 1, TRUE)
    \/ seg["b"].suffix # "" /\ ReplaceLock("r1", "b", "a")
    \/ \E fail \in ReplaceFailures : Replace("r1", fail)
    \/ ReplaceInLog("r1")
    \/ \E o \in 0..(MaxLog + 2) : FetchResolve(o)
    \/ FetchRead
    \/ FetchNext

SpecReplace == InitSegment /\ [][NextReplace]_segVars

\* ------------------------------------------------------------------------
\* Properties
\* ------------------------------------------------------------------------
IsrOps == {"SHRINK_ISR", "EXPAND_ISR", "CHANGE_LEADER"}

\* The entry the next Apply is called with, and the partition it names.
NextEntry == raftLog[lastApplied + 1]
NextKey == <<NextEntry.stream, NextEntry.partition>>

\* An Apply of ShrinkISR, ExpandISR or ChangeLeader whose index is not above
\* the epoch of the existing partition it names.
StaleEpochStep ==
    /\ Apply
    /\ NextEntry.op \in IsrOps
    /\ NextKey \in DOMAIN metadata
    /\ lastApplied + 1 <= GetEpoch(metadata[NextKey])

\* C1: applying ShrinkISR, ExpandISR or ChangeLeader to an existing partition
\* with an epoch less than or equal to the partition's epoch returns nil and
\* leaves the partition's ISR, leader, leader epoch and epoch unchanged.
StaleEpochIsNoOp ==
    [][StaleEpochStep =>
          /\ last'.value = "nil"
          /\ last'.panic # "apply"
          /\ NextKey \in DOMAIN metadata'
          /\ metadata'[NextKey].proto = metadata[NextKey].proto]_vars

\* An ISR or leader entry was applied again to a partition that already held
\* its effect (the restored snapshot was ahead of its index).
WitnessStaleEpoch ==
    /\ last.kind = "apply"
    /\ last.op \in IsrOps
    /\ last.preEpoch >= last.index
    /\ last.value = "nil"
    /\ proc = "running"

EpochLaw(withPaused) ==
    Apply =>
      \A k \in DOMAIN metadata \cap DOMAIN metadata' :
         LET p == metadata[k].proto
             q == metadata'[k].proto
         IN /\ q.epoch >= p.epoch
            /\ (q.isr # p.isr \/ q.leader # p.leader) => q.epoch > p.epoch
            /\ q.paused # p.paused =>
                  IF withPaused THEN q.epoch > p.epoch ELSE q.epoch = p.epoch

\* C2 as claimed: along any sequence of Apply calls the epoch of a partition
\* never decreases, and every applied operation that changes its ISR, leader
\* or paused flag leaves it with a strictly larger epoch.
EpochMonotonic == [][EpochLaw(TRUE)]_vars

\* C2 as amended: the epoch of a partition never decreases, every applied
\* operation that changes its ISR or leader leaves it with a strictly larger
\* epoch, and PauseStream changes the paused flag without changing the epoch.
EpochMonotonicIsrLeader == [][EpochLaw(FALSE)]_vars

\* An ISR or leader entry with a fresh epoch was applied to an existing
\* partition, which now carries the entry's index as its epoch.
WitnessEpochBumped ==
    /\ last.kind = "apply"
    /\ last.op \in IsrOps
    /\ last.preEpoch >= 0
    /\ last.preEpoch < last.index
    /\ \E k \in DOMAIN metadata :
          /\ metadata[k].proto.epoch = last.index
          /\ metadata[k].proto.isr # NodeIDs

\* C3: entries [1..N] applied from an empty node, then a restart and the same
\* entries applied again with the partitions' data still on disk, give the
\* same metadata store and the same on-disk contents.
ReplayIdempotent ==
    (replay.phase = "replay" /\ lastApplied = replay.n /\ proc = "running")
       => (metadata = replay.metadata /\ disk = replay.disk)

\* The partitions a persisted snapshot decodes to.
DecodeView(sn) ==
    LET parts == SubSeq(sn.body, 1, sn.size)
        keys == {<<p.stream, p.id>> : p \in Range(parts)}
    IN [k \in keys |-> CHOOSE p \in Range(parts) : <<p.stream, p.id>> = k]

\* C4: a snapshot taken of state s and persisted with no Apply in between,
\* then restored, yields a store whose partitions (stream, id, replicas, ISR,
\* leader, epoch, leader epoch) are those of s.
SnapshotRoundTrip ==
    (last.kind = "restore" /\ ~views.writtenMixed)
       => (last.value = "nil" /\ ProtoView(metadata) = views.written)

\* A store with a shrunk ISR came back from a snapshot.
WitnessRoundTrip ==
    /\ last.kind = "restore"
    /\ ~views.writtenMixed
    /\ \E k \in DOMAIN metadata : metadata[k].proto.isr # NodeIDs

\* C5: the bytes Persist writes encode the partition metadata as it was when
\* Snapshot() was called, whatever Apply calls ran in between.
SnapshotPointInTime ==
    sink.valid => DecodeView(sink) = views.written

\* C6: with the barrier found by the first Apply, an entry is applied with
\* recovered=true exactly if its index is at most the barrier;
\* finishedRecovery runs at most once per process, in the Apply of the entry
\* at the barrier and after that entry's operation (every partition in the
\* store, the one the entry created included, is started), and it has run
\* once the barrier entry has been applied.
RecoveryBarrier ==
    /\ finishedCount <= 1
    /\ last.kind = "apply" =>
          /\ recoveryHighWatermark >= 0
          /\ last.recovered = (recoveryHighWatermark # 0
                               /\ last.index <= recoveryHighWatermark)
          /\ last.finished = (last.index = recoveryHighWatermark)
          /\ (last.finished /\ proc = "running") =>
                \A k \in DOMAIN metadata : metadata[k].started
    /\ (finishedCount = 1) = (recoveryHighWatermark > 0
                              /\ lastApplied >= recoveryHighWatermark)

\* The recovery finished and an entry beyond the barrier was applied as a
\* new one.
WitnessRecoveryBarrier ==
    /\ recoveryHighWatermark > 0
    /\ finishedCount = 1
    /\ last.kind = "apply"
    /\ last.index > recoveryHighWatermark
    /\ ~last.recovered

\* C7: while the recovery is in progress no partition a recovered entry added
\* is started (every partition of the store was added by such an entry), and
\* once finishedRecovery has returned every partition of the store is started.
RecoveredNotStarted ==
    /\ latestRecoveredLog # 0 =>
          \A k \in DOMAIN metadata : ~metadata[k].started
    /\ (finishedCount >= 1 /\ proc = "running") =>
          \A k \in DOMAIN metadata :
             metadata[k].started /\ ~metadata[k].recovered

\* The Apply of the barrier entry has just started a recovered partition.
WitnessRecoveredStarted ==
    /\ last.kind = "apply"
    /\ last.recovered
    /\ last.finished
    /\ proc = "running"
    /\ DOMAIN metadata # {}

\* C8: CreatePartition at index i for a partition that does not exist adds it
\* with epoch = leader epoch = i; for one that exists it returns
\* ErrPartitionExists as the result, does not abort and leaves the partition
\* unchanged.
CreatePartitionResult ==
    [][(Apply /\ NextEntry.op = "CREATE_PARTITION") =>
          /\ last'.panic # "apply"
          /\ NextKey \in DOMAIN metadata'
          /\ IF NextKey \in DOMAIN metadata
             THEN /\ last'.value = "ErrPartitionExists"
                  /\ metadata'[NextKey].proto = metadata[NextKey].proto
             ELSE /\ last'.value = "nil"
                  /\ metadata'[NextKey].proto.epoch = lastApplied + 1
                  /\ metadata'[NextKey].proto.leaderEpoch = lastApplied + 1]_vars

\* A second CreatePartition for a partition whose epoch had moved on came
\* back with ErrPartitionExists.
WitnessPartitionExists ==
    /\ last.kind = "apply"
    /\ last.op = "CREATE_PARTITION"
    /\ last.value = "ErrPartitionExists"
    /\ last.preEpoch > 0
    /\ proc = "running"

\* A PauseStream entry names a partition its stream does not have.
PauseMissesPartition ==
    /\ NextEntry.partitions # <<>>
    /\ \E i \in Range(NextEntry.partitions) : <<NextEntry.stream, i>> \notin DOMAIN metadata

\* C9: DeleteStream of a missing stream returns ErrStreamNotFound, PauseStream
\* of a missing stream ErrStreamNotFound and of a missing partition
\* ErrPartitionNotFound, as the Apply result; the FSM does not abort and the
\* metadata store is unchanged.
NotFoundSentinels ==
    [][(Apply /\ NextEntry.op \in {"DELETE_STREAM", "PAUSE_STREAM"}
              /\ (~HasStream(metadata, NextEntry.stream)
                  \/ (NextEntry.op = "PAUSE_STREAM" /\ PauseMissesPartition))) =>
          /\ last'.panic # "apply"
          /\ last'.value = IF ~HasStream(metadata, NextEntry.stream)
                           THEN "ErrStreamNotFound" ELSE "ErrPartitionNotFound"
          /\ ProtoView(metadata') = ProtoView(metadata)]_vars

\* The part of C9 that Apply and its apply functions decide: the sentinels
\* come back as the Apply result, the FSM does not abort, a missing stream
\* leaves the store as it is, and a PauseStream that misses a partition adds
\* and removes no partition and changes nothing but paused flags of listed
\* partitions (what Stream.Pause did before it returned).
NotFoundSentinelsApply ==
    [][(Apply /\ NextEntry.op \in {"DELETE_STREAM", "PAUSE_STREAM"}
              /\ (~HasStream(metadata, NextEntry.stream)
                  \/ (NextEntry.op = "PAUSE_STREAM" /\ PauseMissesPartition))) =>
          /\ last'.panic # "apply"
          /\ last'.value = IF ~HasStream(metadata, NextEntry.stream)
                           THEN "ErrStreamNotFound" ELSE "ErrPartitionNotFound"
          /\ ~HasStream(metadata, NextEntry.stream) =>
                ProtoView(metadata') = ProtoView(metadata)
          /\ DOMAIN metadata' = DOMAIN metadata
          /\ \A k \in DOMAIN metadata :
                \/ metadata'[k].proto = metadata[k].proto
                \/ /\ k[1] = NextEntry.stream
                   /\ k[2] \in Range(NextEntry.partitions)
                   /\ metadata'[k].proto =
                         PartitionPause(metadata[k], NextEntry.resumeAll).proto]_vars

\* PauseStream came back with ErrPartitionNotFound for an existing stream.
WitnessNotFound ==
    /\ last.kind = "apply"
    /\ last.op = "PAUSE_STREAM"
    /\ last.value = "ErrPartitionNotFound"
    /\ DOMAIN metadata # {}
    /\ proc = "running"

\* C10: ShrinkISR, ExpandISR or ChangeLeader for a partition that is not in
\* the store returns ErrPartitionNotFound as the Apply result and the process
\* does not abort.
MissingPartitionRecoverable ==
    (last.kind = "apply" /\ last.op \in IsrOps /\ last.preEpoch = -1)
       => (last.value = "ErrPartitionNotFound" /\ proc = "running")

\* An Apply whose operation the switch does not know, or whose ISR or leader
\* operation names a partition that is not in the store: apply fails with an
\* error that is no sentinel.
FatalCase ==
    \/ NextEntry.op = "UNKNOWN"
    \/ NextEntry.op \in IsrOps /\ NextKey \notin DOMAIN metadata

FatalErrors == {"Unknown Raft operation", "No such partition"}

FatalApplyLaw(neverAbortsInShutdown) ==
    (Apply /\ FatalCase) =>
       /\ last'.value \in FatalErrors
       /\ IF shutdown
          THEN /\ last'.panic # "apply"
               /\ IF neverAbortsInShutdown
                  THEN proc' = "running"
                  ELSE proc' = "aborted" => (last'.finished /\ last'.panic = "recovery")
          ELSE /\ proc' = "aborted"
               /\ last'.panic = "apply"

\* C11 as claimed: an Apply whose operation is unknown or fails with an error
\* that is no sentinel aborts the process unless the server is shutting down;
\* then Apply returns the error as its result and the process does not abort.
\* Apply never returns a nil result after such a failure.
FatalApply == [][FatalApplyLaw(TRUE)]_vars

\* C11 as amended: as above, but in a server that is shutting down the process
\* still aborts when the failing entry is the recovery barrier and the deferred
\* finishedRecovery fails; the failure of apply itself does not abort it.
FatalApplyOwnFailure == [][FatalApplyLaw(FALSE)]_vars

\* A server that is shutting down returned the error of an unknown operation
\* as the Apply result and went on.
WitnessFatalShutdown ==
    /\ last.kind = "apply"
    /\ last.op = "UNKNOWN"
    /\ last.value = "Unknown Raft operation"
    /\ last.panic = "none"
    /\ shutdown
    /\ proc = "running"

\* C12: after a successful Restore the metadata store holds exactly the
\* partitions of the snapshot, each added with recovered=false, and none of
\* the partitions it held before that the snapshot does not list.
RestoreDiscardsState ==
    (last.kind = "restore" /\ last.value = "nil") =>
       /\ DOMAIN metadata = DOMAIN DecodeView(sink)
       /\ \A k \in DOMAIN metadata :
             /\ metadata[k].proto = DecodeView(sink)[k]
             /\ ~metadata[k].recovered
             /\ metadata[k].started
       /\ last.dropped \cap DOMAIN metadata = {}

\* A Restore removed a partition that Apply calls had put into the store and
\* that the snapshot does not list.
WitnessRestoreDropped ==
    /\ last.kind = "restore"
    /\ last.value = "nil"
    /\ last.dropped # {}

\* The bytes of the log file of a segment of the log.
LogBytes(x) == files[seg[x].log.path].data

\* C16: in every reachable state of a segment, firstOffset = -1 exactly if the
\* segment holds no messages; otherwise baseOffset <= firstOffset <=
\* lastOffset and firstOffset is the offset of the first message written to
\* the segment; position is the physical size of the log file.
SegmentOffsetsAndPosition ==
    seg["a"].made =>
       /\ (seg["a"].firstOffset = -1) = (Len(LogBytes("a")) = 0)
       /\ Len(LogBytes("a")) > 0 =>
             /\ seg["a"].BaseOffset <= seg["a"].firstOffset
             /\ seg["a"].firstOffset <= seg["a"].lastOffset
             /\ seg["a"].firstOffset = LogBytes("a")[1]
       /\ seg["a"].position = Len(LogBytes("a"))

\* C17: once Seal has returned, no WriteMessageSet changes the position, the
\* first or the last offset of the segment, and a second Seal changes no
\* state and notifies nobody.
SealedIsReadOnly ==
    [][/\ (seg["a"].sealed /\ seg'["a"].sealed) =>
             /\ seg'["a"].position = seg["a"].position
             /\ seg'["a"].firstOffset = seg["a"].firstOffset
             /\ seg'["a"].lastOffset = seg["a"].lastOffset
       /\ (seg["a"].sealed /\ Seal("a")) => UNCHANGED <<seg, files, chans>>]_segVars

\* The second half of C17 alone: Seal on a sealed segment changes no state
\* and closes no channel.
SecondSealNoOp ==
    [][(seg["a"].sealed /\ Seal("a")) => UNCHANGED <<seg, files, chans>>]_segVars

\* What the design text gives for CheckSplit.
SplitLaw(s, rollInterval, now) ==
    \/ s.position >= s.maxBytes
    \/ /\ rollInterval > 0
       /\ s.firstWriteTime # 0
       /\ now - s.firstWriteTime >= rollInterval

\* C18: for every segment state and every rollInterval (zero, positive or
\* negative) CheckSplit returns true exactly if position >= maxBytes, or
\* rollInterval > 0 and firstWriteTime # 0 and now - firstWriteTime >=
\* rollInterval; it changes no segment state.
CheckSplitLaw ==
    [][\A t \in RollTimes :
          CallCheckSplit("a", t) =>
             /\ (segLast'.result = 1) = SplitLaw(seg["a"], t, clock)
             /\ UNCHANGED <<seg, files, chans>>]_segVars

\* A write that goes through or the first Seal: the calls that notify.
NotifyingStep ==
    \/ \E e \in MessageSets(seg["a"]) : WriteMessageSet("a", e, Len(e), TRUE)
    \/ ~seg["a"].sealed /\ Seal("a")

\* C19: under every interleaving of WaitForData, WaitForLEO, removeWaiter,
\* WriteMessageSet and Seal no channel is closed twice, every channel in the
\* waiters map is open, and a notification closes every registered channel
\* and leaves the map empty.
WaitersClosedOnce ==
    /\ [](/\ \A c \in 1..MaxChans : chans[c] <= 1
          /\ \A w \in DOMAIN seg["a"].waiters : ~IsClosed(chans, seg["a"].waiters[w]))
    /\ [][NotifyingStep =>
             /\ \A w \in DOMAIN seg["a"].waiters : chans'[seg["a"].waiters[w]] = 1
             /\ seg'["a"].waiters = EmptyMap]_segVars

\* One notification closed the channels of two registered waiters.
WitnessNotifiedBoth ==
    /\ segLast.op \in {"WriteMessageSet", "Seal"}
    /\ segLast.result = 2
    /\ \A w \in Waiters : readers[w].pc = "waiting" /\ IsClosed(chans, readers[w].ch)
    /\ readers["w1"].ch # readers["w2"].ch
    /\ seg["a"].waiters = EmptyMap

\* A reader waits on an open channel.
Blocked(w) == readers[w].pc = "waiting" /\ ~IsClosed(chans, readers[w].ch)

\* C20: a reader that called WaitForData or WaitForLEO with what it observed
\* and has not called removeWaiter is not left with an open channel once the
\* segment has data past the reader's position or has been sealed after the
\* reader's observation, whether the write or the seal came before or after
\* the waiter was registered.
NoLostWakeup ==
    \A w \in Waiters :
       Blocked(w) =>
          /\ seg[readers[w].seg].position <= readers[w].pos
          /\ seg[readers[w].seg].sealed => readers[w].sawSealed

\* The part of C20 about writes alone: no reader is left with an open channel
\* when the segment has data past the reader's position.
NoLostWakeupOnWrite ==
    \A w \in Waiters :
       Blocked(w) => seg[readers[w].seg].position <= readers[w].pos


\* C13: for any interleaving of a reader's reads with Replace(old), a Replace
\* that fails part-way included, the reader gets the message of the entry it
\* looked up, is never left with an error other than ErrSegmentReplaced, and
\* starts again at the log at most once.
ReplaceAtomicForReaders ==
    /\ fetcher.pc = "done" =>
          /\ fetcher.data = fetcher.entry[1].Offset
          /\ fetcher.data >= fetcher.offset
    /\ fetcher.pc # "failed"
    /\ fetcher.retries <= 1


\* A step in which the reader's ReadAt returns.
ReadAtStep == fetcher.pc = "resolved" /\ fetcher'.pc # "resolved"

\* C14: ReadAt fails with ErrSegmentReplaced exactly when the segment has been
\* superseded by a Replace, with ErrSegmentClosed exactly when the segment is
\* closed and was not superseded, and otherwise reads its file at the
\* position, which gives the message there when the file is open: an open
\* segment reports neither error.
ReadAtErrors ==
    [][ReadAtStep =>
        LET s == seg[fetcher.seg]
            pos == fetcher.entry[1].Position
            data == files[logPath(s)].data
        IN /\ fetcher'.err = ErrSegmentReplaced <=> s.superseded
           /\ fetcher'.err = ErrSegmentClosed <=> (s.closed /\ ~s.superseded)
           /\ ~s.closed =>
                 /\ fetcher'.err \notin {ErrSegmentReplaced, ErrSegmentClosed}
                 /\ s.log.open /\ pos < Len(data) =>
                       fetcher'.err = "nil" /\ fetcher'.data = data[pos + 1]]_segVars

\* What a WaitForData or WaitForLEO call at position pos of segment s is to
\* give when there is data past pos or the segment is full (ready): a closed
\* channel and no new registration; and otherwise: the waiter registered with
\* the open channel that is returned.
WaitResult(s, w, ready) ==
    LET s1 == seg'[segLast'.seg]
    IN /\ segLast'.closedOnReturn <=> ready
       /\ ready => (w \in DOMAIN s1.waiters => w \in DOMAIN s.waiters)
       /\ ~ready => /\ w \in DOMAIN s1.waiters
                    /\ s1.waiters[w] = readers'[w].ch
                    /\ ~IsClosed(chans', readers'[w].ch)

\* C21: WaitForData(waiter, pos) returns a closed channel whenever the
\* segment's position is greater than pos or the segment is full, whether or
\* not the waiter is registered from an earlier call, and only otherwise
\* registers the waiter and returns an open channel.
WaitForDataLaw ==
    [][segLast'.op = "WaitForData" =>
        LET s == seg[segLast'.seg]
        IN WaitResult(s, segLast'.waiter,
                      s.position > segLast'.arg \/ s.position >= s.maxBytes)]_segVars

\* The same for the calls of a waiter that is not registered; a registered
\* waiter is given the channel it is registered with, which is open.
WaitForDataLawUnregistered ==
    [][segLast'.op = "WaitForData" =>
        LET s == seg[segLast'.seg]
            w == segLast'.waiter
        IN IF w \in DOMAIN s.waiters
           THEN /\ readers'[w].ch = s.waiters[w]
                /\ ~segLast'.closedOnReturn
                /\ seg' = seg
           ELSE WaitResult(s, w, s.position > segLast'.arg
                                 \/ s.position >= s.maxBytes)]_segVars


\* C22: WaitForLEO(waiter, leo) returns a closed channel if leo is not the
\* segment's log end offset (the offset the next message gets) or the segment
\* is full, and otherwise registers the waiter and returns an open channel,
\* for empty segments, with a base offset other than zero too, as for
\* segments that hold messages.
WaitForLEOLaw ==
    [][segLast'.op = "WaitForLEO" =>
        LET s == seg[segLast'.seg]
        IN WaitResult(s, segLast'.waiter,
                      segLast'.arg # NextOffset(s) \/ s.position >= s.maxBytes)]_segVars

\* The same with the log end offset read as the offset of the last message
\* of the log: the one before the next offset.
WaitForLEOLawLastOffset ==
    [][segLast'.op = "WaitForLEO" =>
        LET s == seg[segLast'.seg]
        IN WaitResult(s, segLast'.waiter,
                      segLast'.arg # NextOffset(s) - 1
                      \/ s.position >= s.maxBytes)]_segVars

\* What WaitForLEO does for a waiter that is not registered: the offset is
\* compared with the last offset the segment itself holds, -1 when empty.
WaitForLEOLawUnregistered ==
    [][segLast'.op = "WaitForLEO" /\ segLast'.waiter \notin DOMAIN seg[segLast'.seg].waiters =>
        LET s == seg[segLast'.seg]
        IN WaitResult(s, segLast'.waiter,
                      segLast'.arg # s.lastOffset \/ s.position >= s.maxBytes)]_segVars


\* The waiters that hold a channel they are not registered with in segment s.
Unregistered(s) ==
    {w \in Waiters : readers[w].ch # 0 /\ (w \in DOMAIN s.waiters => s.waiters[w] # readers[w].ch)}

\* C23: removeWaiter at any point of any interleaving changes nothing for a
\* waiter that is not registered; for a registered waiter it removes that
\* waiter only and closes no channel; a later write or seal closes no channel
\* twice and not the channel of a waiter that was removed; and the waiter that
\* registers again is given another channel.
RemoveWaiterSafe ==
    /\ [](\A c \in 1..MaxChans : chans[c] <= 1)
    /\ [][LET x == segLast'.seg
              w == segLast'.waiter
          IN /\ segLast'.op = "removeWaiter" =>
                  /\ chans' = chans
                  /\ DOMAIN seg'[x].waiters = DOMAIN seg[x].waiters \ {w}
                  /\ \A r \in DOMAIN seg'[x].waiters :
                        seg'[x].waiters[r] = seg[x].waiters[r]
                  /\ w \notin DOMAIN seg[x].waiters => seg' = seg
                  /\ readers'[w].ch = readers[w].ch
             /\ segLast'.op \in {"WriteMessageSet", "Seal"} =>
                  \A r \in Unregistered(seg[x]) :
                     chans'[readers[r].ch] = chans[readers[r].ch]
             /\ (/\ segLast'.op \in {"WaitForData", "WaitForLEO"}
                 /\ w \notin DOMAIN seg[x].waiters) =>
                  /\ readers'[w].ch # 0
                  /\ readers'[w].ch # readers[w].ch
                  /\ readers'[w].ch \notin Range(seg[x].waiters)]_segVars

\* A waiter that was removed holds its channel, still open, after a write has
\* notified the other waiter.
WitnessRemovedThenWrite ==
    /\ segLast.op = "WriteMessageSet"
    /\ segLast.result = 1
    /\ readers["w1"].ch # 0
    /\ readers["w1"].pc = "idle"
    /\ ~IsClosed(chans, readers["w1"].ch)
    /\ IsClosed(chans, readers["w2"].ch)
    /\ readers["w2"].ch # 0


\* Two Replace calls each hold the lock the other waits for.
ReplaceDeadlock ==
    \E r1, r2 \in Replacers :
        /\ r1 # r2
        /\ replacers[r1].pc = "hasLock" /\ replacers[r2].pc = "hasLock"
        /\ replacers[r1].old = replacers[r2].s
        /\ replacers[r2].old = replacers[r1].s

\* C24: Replace takes the write locks of the two segments in an order that
\* does not depend on which of them is the receiver: no interleaving of
\* Replace calls on the same pair of segments has one call hold the lock of
\* the first segment and the other call the lock of the second, each waiting
\* for the lock the other holds.
ReplaceLockOrder == ~ReplaceDeadlock


\* The committed command entries of the consensus log.
CommittedCommands == {i \in 1..commitIndex : raftLog[i].type = "LogCommand"}

\* The largest of them.
LastCommittedCommand ==
    CHOOSE i \in CommittedCommands : \A j \in CommittedCommands : j <= i

\* A step in which Apply is called for the first time in the process.
FirstApplyStep == ~recoveryStarted /\ recoveryStarted'

\* C25: the first Apply after process start takes the last committed command
\* entry of the consensus log as the recovery barrier; it sets no barrier and
\* does not enter recovery mode when the log has no entries or the entry it
\* applies is at the commit index; no later Apply computes a barrier.
BarrierComputedOnce ==
    [][/\ FirstApplyStep =>
            LET none == Len(raftLog) = 0 \/ lastApplied' = commitIndex
                       \/ CommittedCommands = {}
            IN /\ recoveryHighWatermark' = IF none THEN 0 ELSE LastCommittedCommand
               /\ none => /\ latestRecoveredLog' = 0
                          /\ ~last'.recovered
                          /\ logDiscard' = logDiscard
                          /\ finishedCount' = finishedCount
               /\ ~none => (last'.recovered
                            /\ latestRecoveredLog' =
                                  IF lastApplied' = LastCommittedCommand
                                  THEN 0 ELSE LastCommittedCommand)
       /\ (recoveryStarted /\ recoveryStarted') =>
            /\ recoveryHighWatermark' = recoveryHighWatermark
            /\ latestRecoveredLog' \in {latestRecoveredLog, 0}]_vars

\* The first Apply found a barrier beyond the entry it applied, with an entry
\* that is not a command in the committed part of the log.
WitnessBarrierAhead ==
    /\ last.kind = "apply"
    /\ recoveryHighWatermark > last.index
    /\ latestRecoveredLog = recoveryHighWatermark
    /\ finishedCount = 0
    /\ \E i \in 1..commitIndex : raftLog[i].type # "LogCommand"

\* The first Apply applied the entry at the commit index, with a committed
\* command, and set no barrier.
WitnessNoBarrier ==
    /\ last.kind = "apply"
    /\ last.index = commitIndex
    /\ recoveryHighWatermark = 0
    /\ ~last.recovered


\* The process is in recovery mode: the first Apply set a barrier and
\* finishedRecovery has not been called.
InRecovery == proc = "running" /\ recoveryHighWatermark > 0 /\ finishedCount = 0

\* C26: the barrier of a process in recovery mode is a committed command
\* entry that is still to be applied, and with raft applying every committed
\* command entry in the order of the indices, recovery mode ends with the one
\* call of finishedRecovery, unless the process stops before.
RecoveryCompletes ==
    /\ [](/\ finishedCount <= 1
          /\ latestRecoveredLog # 0 =>
                /\ lastApplied < latestRecoveredLog
                /\ latestRecoveredLog <= commitIndex
                /\ raftLog[latestRecoveredLog].type = "LogCommand"
          /\ InRecovery => latestRecoveredLog = recoveryHighWatermark)
    /\ (InRecovery ~> (finishedCount = 1 \/ proc = "aborted"
                       \/ recoveryHighWatermark = -1))

\* Recovery mode was entered at an entry before the barrier and has ended at
\* the barrier, in a process that still runs.
WitnessRecoveryCompleted ==
    /\ proc = "running"
    /\ recoveryHighWatermark > 1
    /\ finishedCount = 1
    /\ last.kind = "apply"
    /\ last.finished
    /\ last.index = recoveryHighWatermark
    /\ latestRecoveredLog = 0
    /\ ~logDiscard

=============================================================================
